---- MODULE Spec2Model ----
(***************************************************************************)
(* yall-cosmic: the credential vault (crypto.rs, config.rs), the four      *)
(* platform adapters (social.rs) and the message handlers of the           *)
(* application (app.rs), as one state machine with one specification per   *)
(* layer:                                                                  *)
(*   SpecCipher   CryptoManager: key derivation, encrypt, decrypt          *)
(*   SpecStore    Config::decrypt_credentials / encrypt_credentials        *)
(*   SpecPublish  the async block of PostSubmit and the adapters           *)
(*   Spec         AppModel::init and AppModel::update                      *)
(*                                                                         *)
(* Strings are sequences of Unicode scalar values, byte vectors are        *)
(* sequences of 0..255.  Option<T> is a sequence of length 0 or 1,         *)
(* Result<T, E> is a record [ok, val, err].                                *)
(***************************************************************************)
EXTENDS Integers, Sequences, FiniteSets, TLC

VARIABLES
    env,              \* the process environment: HOSTNAME, COMPUTERNAME, USER, USERNAME
    crypto_manager,   \* CryptoManager { master_key: Option<Key> }
    secret,           \* SpecCipher: the string given to encrypt
    encrypted,        \* SpecCipher: the Option<EncryptedData> at hand
    enc_origin,       \* SpecCipher (history): Some(key) when `encrypted` is the output of
                      \* encrypt(secret) under key
    last_result,      \* the last call and what it returned
    config,           \* the Config the bulk operations work on; AppModel.config
    enc_calls,        \* SpecStore (history): encrypt_credentials calls made in a row
    post,             \* what the async block of PostSubmit captured: config, text,
                      \* attached_image and the four post_to_* flags
    task,             \* the async block: its position, its `errors` vector, the adapter
                      \* call awaiting a response, and its output once it has returned
    io_log,           \* (history) adapter calls and returns, network requests, file reads
    app,              \* AppModel: temp_bluesky, temp_mastodon, temp_nostr, temp_microblog,
                      \* the post_to_* flags and posting_status
    disk,             \* the Config entry that cosmic_config holds on disk
    updates,          \* the writes of the entry that watch_config has yet to report
    edits,            \* Spec: settings and toggle messages handled so far
    saves,            \* Spec: SaveSettings messages handled so far
    memory            \* SpecDrop: the bytes of the CryptoManager, of the local of its
                      \* drop and of the buffers of one EncryptedData, live or released

publish_vars == <<post, task, io_log>>

app_vars == <<app, disk, updates, edits, saves>>

vars == <<env, crypto_manager, secret, encrypted, enc_origin, last_result, config, enc_calls,
          post, task, io_log, app, disk, updates, edits, saves, memory>>

----------------------------------------------------------------------------
(* Option and Result *)

None == <<>>

Some(x) == <<x>>

IsSome(o) == Len(o) = 1

Unwrap(o) == o[1]

Ok(v) == [ok |-> TRUE, val |-> <<v>>, err |-> "none"]

Err(e) == [ok |-> FALSE, val |-> <<>>, err |-> e]

OkVal(r) == r.val[1]

----------------------------------------------------------------------------
(* Strings and their UTF-8 encoding (str::as_bytes, String::from_utf8) *)

\* The scalar values strings are built from: 'a', U+20AC, U+1F680
\* (1, 3 and 4 bytes in UTF-8).
Chars == {97, 8364, 128640}

RECURSIVE SeqsUpTo(_, _)
SeqsUpTo(S, n) ==
    IF n = 0 THEN {<<>>}
    ELSE LET shorter == SeqsUpTo(S, n - 1)
         IN shorter \cup {Append(s, c) : s \in {t \in shorter : Len(t) = n - 1}, c \in S}

EncodeChar(c) ==
    IF c < 128 THEN <<c>>
    ELSE IF c < 2048 THEN <<192 + (c \div 64), 128 + (c % 64)>>
    ELSE IF c < 65536 THEN <<224 + (c \div 4096), 128 + ((c \div 64) % 64), 128 + (c % 64)>>
    ELSE <<240 + (c \div 262144), 128 + ((c \div 4096) % 64),
           128 + ((c \div 64) % 64), 128 + (c % 64)>>

RECURSIVE as_bytes(_)
as_bytes(s) == IF s = <<>> THEN <<>> ELSE EncodeChar(Head(s)) \o as_bytes(Tail(s))

IsCont(b) == b >= 128 /\ b <= 191

\* Number of bytes the sequence starting with lead byte b must have; 0 if b is
\* no valid lead byte.
Utf8Width(b) ==
    IF b < 128 THEN 1
    ELSE IF b >= 194 /\ b <= 223 THEN 2
    ELSE IF b >= 224 /\ b <= 239 THEN 3
    ELSE IF b >= 240 /\ b <= 244 THEN 4
    ELSE 0

DecodeAt(bytes, w) ==
    IF w = 1 THEN bytes[1]
    ELSE IF w = 2 THEN (bytes[1] - 192) * 64 + (bytes[2] - 128)
    ELSE IF w = 3 THEN (bytes[1] - 224) * 4096 + (bytes[2] - 128) * 64 + (bytes[3] - 128)
    ELSE (bytes[1] - 240) * 262144 + (bytes[2] - 128) * 4096
         + (bytes[3] - 128) * 64 + (bytes[4] - 128)

\* A decoded scalar value is rejected when it is overlong, a surrogate or
\* beyond U+10FFFF.
ValidScalar(c, w) ==
    /\ (w = 3 => c >= 2048)
    /\ (w = 4 => c >= 65536)
    /\ ~(c >= 55296 /\ c <= 57343)
    /\ c <= 1114111

\* Whether bytes is well-formed UTF-8, and the scalar values it encodes.
RECURSIVE Utf8Valid(_)
Utf8Valid(bytes) ==
    \/ bytes = <<>>
    \/ /\ Utf8Width(bytes[1]) > 0
       /\ Len(bytes) >= Utf8Width(bytes[1])
       /\ \A i \in 2..Utf8Width(bytes[1]) : IsCont(bytes[i])
       /\ ValidScalar(DecodeAt(bytes, Utf8Width(bytes[1])), Utf8Width(bytes[1]))
       /\ Utf8Valid(SubSeq(bytes, Utf8Width(bytes[1]) + 1, Len(bytes)))

RECURSIVE Utf8Decode(_)
Utf8Decode(bytes) ==
    IF bytes = <<>> THEN <<>>
    ELSE <<DecodeAt(bytes, Utf8Width(bytes[1]))>>
         \o Utf8Decode(SubSeq(bytes, Utf8Width(bytes[1]) + 1, Len(bytes)))

from_utf8(bytes) ==
    IF Utf8Valid(bytes) THEN Ok(Utf8Decode(bytes)) ELSE Err("FromUtf8Error")

----------------------------------------------------------------------------
(* crypto.rs: CryptoManager *)

\* The nonce of AES-256-GCM is 96 bits.
NONCE_LEN == 12

\* Random values drawn from OsRng: the nonce of one encryption (its first byte
\* varies, the others are 0) and the salt strings.
MaxNonce == 1

MaxSalt == 0

Nonce(n) == [i \in 1..NONCE_LEN |-> IF i = 1 THEN n ELSE 0]

Nonces == {Nonce(n) : n \in 0..MaxNonce}

\* SaltString::from_b64("c29tZXNhbHR2YWx1ZQ") and SaltString::generate(OsRng)
FixedSalt == <<"c29tZXNhbHR2YWx1ZQ", 0>>

RandomSalts == {<<"generated", i>> : i \in 0..MaxSalt}

RECURSIVE XorBits(_, _)
XorBits(a, b) ==
    IF a = 0 /\ b = 0 THEN 0
    ELSE (((a % 2) + (b % 2)) % 2) + 2 * XorBits(a \div 2, b \div 2)

\* Bytewise exclusive or, tabulated once.
XorTable == [a \in 0..255 |-> [b \in 0..255 |-> XorBits(a, b)]]

Xor(a, b) == XorTable[a][b]

\* Argon2::default().hash_password(password, salt), first 32 bytes of the hash:
\* a deterministic function of password and salt, one key per (password, salt).
Argon2Key(password, salt) == [password |-> password, salt |-> salt]

\* AES-256-GCM: a counter-mode key stream over (key, nonce) and an
\* authentication tag over (key, nonce, ciphertext body).  The Vec<u8> the
\* cipher returns is the body followed by the 16-byte tag.
KeyStreamSeed(key, nonce) ==
    (Len(key.password) + key.password[Len(key.password)] + 31 * nonce[1] + nonce[Len(nonce)]) % 256

KeyStream(seed, i) == (seed + 7 * i) % 256

\* flip counts the bits changed in the tag after it was computed.
GcmTag(key, nonce, body) == [key |-> key, nonce |-> nonce, body |-> body, flip |-> 0]

AeadApply(key, nonce, bytes) ==
    LET seed == KeyStreamSeed(key, nonce)
    IN [i \in 1..Len(bytes) |-> Xor(bytes[i], KeyStream(seed, i))]

SealBody(key, nonce, body) == [body |-> body, tag |-> GcmTag(key, nonce, body)]

AeadEncrypt(key, nonce, bytes) == SealBody(key, nonce, AeadApply(key, nonce, bytes))

AeadDecrypt(key, nonce, ciphertext) ==
    IF ciphertext.tag = GcmTag(key, nonce, ciphertext.body)
    THEN Ok(AeadApply(key, nonce, ciphertext.body))
    ELSE Err("aead::Error")

CryptoManagerNew == [master_key |-> None]

EnvOr(first, second, default) ==
    IF IsSome(first) THEN Unwrap(first)
    ELSE IF IsSome(second) THEN Unwrap(second)
    ELSE default

\* format!("yall-cosmic-{}-{}", machine_id, user)
MachineKeyInput(e) ==
    LET machine_id == EnvOr(e.HOSTNAME, e.COMPUTERNAME,
            <<100, 101, 102, 97, 117, 108, 116, 45, 109, 97, 99, 104, 105, 110, 101>>)
        user == EnvOr(e.USER, e.USERNAME,
            <<100, 101, 102, 97, 117, 108, 116, 45, 117, 115, 101, 114>>)
    IN <<121, 97, 108, 108, 45, 99, 111, 115, 109, 105, 99, 45>>
       \o machine_id \o <<45>> \o user

\* init_with_machine_key: hash_ok is whether hash_password returned Ok with a
\* hash of at least 32 bytes.  Returns the manager and the Result.
init_with_machine_key(cm, e, hash_ok) ==
    IF ~hash_ok THEN [cm |-> cm, res |-> Err("KeyDerivationFailed")]
    ELSE [cm  |-> [cm EXCEPT !.master_key = Some(Argon2Key(MachineKeyInput(e), FixedSalt))],
          res |-> Ok("unit")]

\* init_with_password: the salt is generated inside and not returned.
init_with_password(cm, password, salt, hash_ok) ==
    IF ~hash_ok THEN [cm |-> cm, res |-> Err("KeyDerivationFailed")]
    ELSE [cm  |-> [cm EXCEPT !.master_key = Some(Argon2Key(password, salt))],
          res |-> Ok("unit")]

\* encrypt with the bug of storing a constant nonce instead of the one used.
encrypt_stores_zero_nonce(cm, plaintext, nonce, salt) ==
    IF ~IsSome(cm.master_key) THEN Err("EncryptionFailed")
    ELSE Ok([ciphertext |-> AeadEncrypt(Unwrap(cm.master_key), nonce, as_bytes(plaintext)),
             nonce      |-> Nonce(0),
             salt       |-> salt])

\* encrypt running the cipher under a constant nonce, whatever nonce it drew
\* and returns.
encrypt_under_constant_nonce(cm, plaintext, nonce, salt) ==
    IF ~IsSome(cm.master_key) THEN Err("EncryptionFailed")
    ELSE Ok([ciphertext |-> AeadEncrypt(Unwrap(cm.master_key), Nonce(0), as_bytes(plaintext)),
             nonce      |-> nonce,
             salt       |-> salt])

\* encrypt falling back to a key derived from the empty password when no key
\* is loaded.
encrypt_with_default_key(cm, plaintext, nonce, salt) ==
    Ok([ciphertext |-> AeadEncrypt(IF IsSome(cm.master_key) THEN Unwrap(cm.master_key)
                                   ELSE Argon2Key(<<>>, FixedSalt),
                                   nonce, as_bytes(plaintext)),
        nonce      |-> nonce,
        salt       |-> salt])

encrypt(cm, plaintext, nonce, salt) ==
    IF ~IsSome(cm.master_key) THEN Err("EncryptionFailed")
    ELSE Ok([ciphertext |-> AeadEncrypt(Unwrap(cm.master_key), nonce, as_bytes(plaintext)),
             nonce      |-> nonce,
             salt       |-> salt])

\* decrypt without the check of the nonce's length: Nonce::from_slice panics
\* on a slice that has not NONCE_LEN bytes.
decrypt_unchecked_nonce(cm, data) ==
    IF ~IsSome(cm.master_key) THEN Err("DecryptionFailed")
    ELSE IF Len(data.nonce) # NONCE_LEN THEN Err("panic")
    ELSE CHOOSE out \in
            {IF ~plain.ok THEN Err("DecryptionFailed")
             ELSE IF ~Utf8Valid(OkVal(plain)) THEN Err("InvalidData")
             ELSE from_utf8(OkVal(plain)) :
                plain \in {AeadDecrypt(Unwrap(cm.master_key), data.nonce,
                                       data.ciphertext)}} : TRUE

\* decrypt with a cipher that does not verify the tag.
decrypt_unverified(cm, data) ==
    IF ~IsSome(cm.master_key) THEN Err("DecryptionFailed")
    ELSE IF Len(data.nonce) # NONCE_LEN THEN Err("InvalidData")
    ELSE CHOOSE out \in
            {IF ~Utf8Valid(plain) THEN Err("InvalidData") ELSE from_utf8(plain) :
                plain \in {AeadApply(Unwrap(cm.master_key), data.nonce,
                                     data.ciphertext.body)}} : TRUE

\* `plain` below is bound to a value, computed once.
decrypt(cm, data) ==
    IF ~IsSome(cm.master_key) THEN Err("DecryptionFailed")
    ELSE IF Len(data.nonce) # NONCE_LEN THEN Err("InvalidData")
    ELSE CHOOSE out \in
            {IF ~plain.ok THEN Err("DecryptionFailed")
             ELSE IF ~Utf8Valid(OkVal(plain)) THEN Err("InvalidData")
             ELSE from_utf8(OkVal(plain)) :
                plain \in {AeadDecrypt(Unwrap(cm.master_key), data.nonce, data.ciphertext)}} : TRUE

----------------------------------------------------------------------------
(* config.rs: Config and its bulk operations *)

Platforms == {"bluesky", "mastodon", "microblog", "nostr"}

\* The persisted secret and the runtime-only decrypted field of a platform.
Stored(cfg, p) ==
    CASE p = "bluesky"   -> cfg.bluesky.password
      [] p = "mastodon"  -> cfg.mastodon.access_token
      [] p = "microblog" -> cfg.microblog.access_token
      [] p = "nostr"     -> cfg.nostr.private_key

DecryptedOf(cfg, p) ==
    CASE p = "bluesky"   -> cfg.bluesky.decrypted_password
      [] p = "mastodon"  -> cfg.mastodon.decrypted_access_token
      [] p = "microblog" -> cfg.microblog.decrypted_access_token
      [] p = "nostr"     -> cfg.nostr.decrypted_private_key

BlueskyConfig(enabled, handle, password, decrypted) ==
    [enabled |-> enabled, handle |-> handle, password |-> password,
     decrypted_password |-> decrypted]

MastodonConfig(enabled, instance_url, access_token, decrypted) ==
    [enabled |-> enabled, instance_url |-> instance_url, access_token |-> access_token,
     decrypted_access_token |-> decrypted]

NostrConfig(enabled, private_key, relays, decrypted) ==
    [enabled |-> enabled, private_key |-> private_key, relays |-> relays,
     decrypted_private_key |-> decrypted]

MicroBlogConfig(enabled, access_token, decrypted) ==
    [enabled |-> enabled, access_token |-> access_token,
     decrypted_access_token |-> decrypted]

\* What serde writes and reads back: the #[serde(skip)] fields are not written
\* and come back as String::default().
\* Persisted with the decrypted fields serialized like the others.
PersistedWithSecrets(cfg) == cfg

Persisted(cfg) ==
    [cfg EXCEPT !.bluesky.decrypted_password = <<>>,
                !.mastodon.decrypted_access_token = <<>>,
                !.microblog.decrypted_access_token = <<>>,
                !.nostr.decrypted_private_key = <<>>]

\* DecryptField with the bug of appending the plaintext to the field.
DecryptFieldAppending(crypto, stored, decrypted) ==
    IF ~IsSome(stored) THEN [decrypted |-> decrypted, res |-> Ok("unit")]
    ELSE CHOOSE out \in
            {IF r.ok THEN [decrypted |-> decrypted \o OkVal(r), res |-> Ok("unit")]
                     ELSE [decrypted |-> decrypted, res |-> Err(r.err)] :
                r \in {decrypt(crypto, Unwrap(stored))}} : TRUE

\* One field of decrypt_credentials:
\*     if let Some(encrypted) = &stored { decrypted = crypto.decrypt(encrypted)?; }
DecryptField(crypto, stored, decrypted) ==
    IF ~IsSome(stored) THEN [decrypted |-> decrypted, res |-> Ok("unit")]
    ELSE CHOOSE out \in
            {IF r.ok THEN [decrypted |-> OkVal(r), res |-> Ok("unit")]
                     ELSE [decrypted |-> decrypted, res |-> Err(r.err)] :
                r \in {decrypt(crypto, Unwrap(stored))}} : TRUE

\* The order in which both bulk operations go through the fields.
FieldOrder == <<"bluesky", "mastodon", "microblog", "nostr">>

Position(p) == CHOOSE i \in 1..Len(FieldOrder) : FieldOrder[i] = p

\* decrypt_credentials: the four fields in the order Bluesky, Mastodon,
\* Micro.Blog, Nostr.  Each field is decrypted with the ? operator, so the call
\* returns at the first field that fails: a field is reached if and only if no
\* field before it failed (the fields do not depend on each other).  f[i] is
\* the outcome of DecryptField for the field FieldOrder[i].
Reached(f, p) == \A i \in 1..(Position(p) - 1) : f[i].res.ok

FirstFailed(f) == CHOOSE i \in 1..Len(f) : ~f[i].res.ok /\ \A j \in 1..(i - 1) : f[j].res.ok

ResultOf(f) == IF \A i \in 1..Len(f) : f[i].res.ok THEN Ok("unit") ELSE f[FirstFailed(f)].res

DecryptedAfter(self, f, p) ==
    IF Reached(f, p) THEN f[Position(p)].decrypted ELSE DecryptedOf(self, p)

DecryptAssemble(self, f) ==
    [config |->
        [self EXCEPT
            !.bluesky.decrypted_password = DecryptedAfter(self, f, "bluesky"),
            !.mastodon.decrypted_access_token = DecryptedAfter(self, f, "mastodon"),
            !.microblog.decrypted_access_token = DecryptedAfter(self, f, "microblog"),
            !.nostr.decrypted_private_key = DecryptedAfter(self, f, "nostr")],
     res |-> ResultOf(f)]

decrypt_credentials(self, crypto) ==
    CHOOSE r \in
        {DecryptAssemble(self, f) :
            f \in {<<DecryptField(crypto, self.bluesky.password, self.bluesky.decrypted_password),
                     DecryptField(crypto, self.mastodon.access_token,
                                  self.mastodon.decrypted_access_token),
                     DecryptField(crypto, self.microblog.access_token,
                                  self.microblog.decrypted_access_token),
                     DecryptField(crypto, self.nostr.private_key,
                                  self.nostr.decrypted_private_key)>>}} : TRUE

\* EncryptField with the bug of clearing the persisted secret of a blank field.
EncryptFieldErasing(crypto, stored, decrypted, draw) ==
    IF decrypted = <<>> THEN [stored |-> None, res |-> Ok("unit")]
    ELSE CHOOSE out \in
            {IF r.ok THEN [stored |-> Some(OkVal(r)), res |-> Ok("unit")]
                     ELSE [stored |-> stored, res |-> Err(r.err)] :
                r \in {encrypt(crypto, decrypted, draw.nonce, draw.salt)}} : TRUE

\* EncryptField that drops the persisted secret when encrypt fails.
EncryptFieldClearingOnError(crypto, stored, decrypted, draw) ==
    IF decrypted = <<>> THEN [stored |-> stored, res |-> Ok("unit")]
    ELSE CHOOSE out \in
            {IF r.ok THEN [stored |-> Some(OkVal(r)), res |-> Ok("unit")]
                     ELSE [stored |-> None, res |-> Err(r.err)] :
                r \in {encrypt(crypto, decrypted, draw.nonce, draw.salt)}} : TRUE

\* One field of encrypt_credentials:
\*     if !decrypted.is_empty() { stored = Some(crypto.encrypt(&decrypted)?); }
\* draw is the nonce and the salt OsRng yields inside encrypt.
EncryptField(crypto, stored, decrypted, draw) ==
    IF decrypted = <<>> THEN [stored |-> stored, res |-> Ok("unit")]
    ELSE CHOOSE out \in
            {IF r.ok THEN [stored |-> Some(OkVal(r)), res |-> Ok("unit")]
                     ELSE [stored |-> stored, res |-> Err(r.err)] :
                r \in {encrypt(crypto, decrypted, draw.nonce, draw.salt)}} : TRUE

\* encrypt_credentials: the four fields in the same order, each encrypted with
\* the ? operator; rng[p] is the draw of platform p and f[i] the outcome of
\* EncryptField for the field FieldOrder[i].
StoredAfter(self, f, p) ==
    IF Reached(f, p) THEN f[Position(p)].stored ELSE Stored(self, p)

EncryptAssemble(self, f) ==
    [config |->
        [self EXCEPT
            !.bluesky.password = StoredAfter(self, f, "bluesky"),
            !.mastodon.access_token = StoredAfter(self, f, "mastodon"),
            !.microblog.access_token = StoredAfter(self, f, "microblog"),
            !.nostr.private_key = StoredAfter(self, f, "nostr")],
     res |-> ResultOf(f)]

encrypt_credentials(self, crypto, rng) ==
    CHOOSE r \in
        {EncryptAssemble(self, f) :
            f \in {<<EncryptField(crypto, self.bluesky.password,
                                  self.bluesky.decrypted_password, rng["bluesky"]),
                     EncryptField(crypto, self.mastodon.access_token,
                                  self.mastodon.decrypted_access_token, rng["mastodon"]),
                     EncryptField(crypto, self.microblog.access_token,
                                  self.microblog.decrypted_access_token, rng["microblog"]),
                     EncryptField(crypto, self.nostr.private_key,
                                  self.nostr.decrypted_private_key, rng["nostr"])>>}} : TRUE

----------------------------------------------------------------------------
(* social.rs: the four adapters.  An adapter is an async fn: it runs to its   *)
(* first network request, and each response resumes it to the next request    *)
(* or to its return value.  A step of an adapter is a record                  *)
(*   [done, res, call, io]                                                    *)
(* with done = TRUE and the returned Result<(), PostError> in res, or with    *)
(* done = FALSE and the adapter's locals at the await in call; io lists the   *)
(* network requests and file reads the step issued, in order.                 *)

BLUESKY_CHARACTER_LIMIT == 300

IMAGE_MAX_BYTES == 1000000

PostOk == [ok |-> TRUE, err |-> [kind |-> "none", msg |-> "none"]]

\* A PostError whose message ends with a text taken from outside: format!("..: {}", text)
PostErrWith(kind, msg, text) ==
    [ok |-> FALSE, err |-> [kind |-> kind, msg |-> msg, text |-> text]]

PostErr(kind, msg) == PostErrWith(kind, msg, <<>>)

Net(platform, target, body) ==
    [kind |-> "net", platform |-> platform, target |-> target, body |-> body]

FsRead(platform, path) ==
    [kind |-> "fs", platform |-> platform, target |-> "read", body |-> [path |-> path]]

Done(res, io) == [done |-> TRUE, res |-> res, call |-> None, io |-> io]

Await(call, io) == [done |-> FALSE, res |-> PostOk, call |-> Some(call), io |-> io]

\* What a request can come back with: a transport error (reqwest::Error), a
\* status that is not a success, a success whose body is not JSON, a success
\* whose JSON lacks the field the adapter reads, and a success with the field.
Responses == {"error", "fail", "ok_nojson", "ok_missing", "ok"}

\* The body of a response that carries a status that is not a success.
FailBody == <<98, 97, 100>>

\* response.text().await.unwrap_or_default()
ErrorText(response) == IF response = "fail" THEN FailBody ELSE <<>>

\* char::is_whitespace
WhiteSpace ==
    {9, 10, 11, 12, 13, 32, 133, 160, 5760, 8232, 8233, 8239, 8287, 12288} \cup (8192..8202)

\* text.trim().is_empty()
TrimIsEmpty(text) == \A i \in 1..Len(text) : text[i] \in WhiteSpace

\* The length in bytes of the UTF-8 encoding of the first k scalar values.
PrefixBytes(text, k) ==
    LET Wide(w) == Cardinality({i \in 1..k : Len(EncodeChar(text[i])) = w})
    IN Wide(1) + 2 * Wide(2) + 3 * Wide(3) + 4 * Wide(4)

\* A truncation that counts bytes instead of scalar values: the longest prefix
\* of whole scalar values that fits in n bytes.
TakeBytes(text, n) ==
    SubSeq(text, 1, CHOOSE k \in 0..Len(text) :
                        /\ PrefixBytes(text, k) <= n
                        /\ k < Len(text) => PrefixBytes(text, k + 1) > n)

\* text.chars().take(n).collect::<String>()
Take(text, n) == IF Len(text) > n THEN SubSeq(text, 1, n) ELSE text

\* s.trim_end_matches('/')
RECURSIVE TrimEndSlash(_)
TrimEndSlash(s) ==
    IF s # <<>> /\ s[Len(s)] = 47 THEN TrimEndSlash(SubSeq(s, 1, Len(s) - 1)) ELSE s

\* The files an attached image path can name: std::fs::read fails, or returns
\* a byte vector of the given length.
ImageOk == <<47, 105>>

ImageBig == <<47, 98>>

ImageGone == <<47, 103>>

FileLen(path) ==
    CASE path = ImageOk -> Some(IMAGE_MAX_BYTES)
      [] path = ImageBig -> Some(IMAGE_MAX_BYTES + 1)
      [] OTHER -> None

\* The preconditions of the four adapters (BlueskyConfiguredWithoutSecret is
\* the Bluesky one with the password test left out).
BlueskyConfiguredWithoutSecret(c) == c.enabled /\ c.handle # <<>>

BlueskyConfigured(c) == c.enabled /\ c.handle # <<>> /\ c.decrypted_password # <<>>

MastodonConfigured(c) == c.enabled /\ c.instance_url # <<>> /\ c.decrypted_access_token # <<>>

NostrConfigured(c) == c.enabled /\ c.decrypted_private_key # <<>> /\ c.relays # <<>>

MicroBlogConfigured(c) == c.enabled /\ c.decrypted_access_token # <<>>

\* auth_data["accessJwt"].as_str() of the response to createSession
AccessJwt(response) == IF response = "ok" THEN <<106, 119, 116>> ELSE <<>>

BlueskyCreateRecord(c, call, embed) ==
    Await([call EXCEPT !.stage = "createRecord"],
          <<Net("bluesky", "com.atproto.repo.createRecord",
                [bearer |-> call.access_jwt, repo |-> c.handle,
                 text |-> call.truncated_text, embed |-> embed])>>)

\* BlueskyAfterSession refusing an image of IMAGE_MAX_BYTES bytes as well.
BlueskyAfterSessionCapExclusive(c, call, image_path) ==
    IF ~IsSome(image_path) THEN BlueskyCreateRecord(c, call, FALSE)
    ELSE IF ~IsSome(FileLen(Unwrap(image_path)))
         THEN Done(PostErr("Api", "Failed to read image"),
                   <<FsRead("bluesky", Unwrap(image_path))>>)
    ELSE IF Unwrap(FileLen(Unwrap(image_path))) >= IMAGE_MAX_BYTES
         THEN Done(PostErr("Api", "Image file size too large"),
                   <<FsRead("bluesky", Unwrap(image_path))>>)
    ELSE Await([call EXCEPT !.stage = "uploadBlob"],
               <<FsRead("bluesky", Unwrap(image_path)),
                 Net("bluesky", "com.atproto.repo.uploadBlob",
                     [bearer |-> call.access_jwt, path |-> Unwrap(image_path)])>>)

\* After the session is created: the image, when there is one, is read and
\* uploaded before the record is created.
BlueskyAfterSession(c, call, image_path) ==
    IF ~IsSome(image_path) THEN BlueskyCreateRecord(c, call, FALSE)
    ELSE IF ~IsSome(FileLen(Unwrap(image_path)))
         THEN Done(PostErr("Api", "Failed to read image"),
                   <<FsRead("bluesky", Unwrap(image_path))>>)
    ELSE IF Unwrap(FileLen(Unwrap(image_path))) > IMAGE_MAX_BYTES
         THEN Done(PostErr("Api", "Image file size too large"),
                   <<FsRead("bluesky", Unwrap(image_path))>>)
    ELSE Await([call EXCEPT !.stage = "uploadBlob"],
               <<FsRead("bluesky", Unwrap(image_path)),
                 Net("bluesky", "com.atproto.repo.uploadBlob",
                     [bearer |-> call.access_jwt, path |-> Unwrap(image_path)])>>)

\* post_to_bluesky without the fallback for an empty text.
post_to_bluesky_without_fallback(c, text, image_path) ==
    IF ~BlueskyConfigured(c) THEN Done(PostErr("Auth", "Bluesky not configured"), <<>>)
    ELSE Await([platform |-> "bluesky", stage |-> "createSession", access_jwt |-> <<>>,
                truncated_text |-> Take(text, BLUESKY_CHARACTER_LIMIT)],
               <<Net("bluesky", "com.atproto.server.createSession",
                     [identifier |-> c.handle, password |-> c.decrypted_password])>>)

post_to_bluesky(c, text, image_path) ==
    IF ~BlueskyConfigured(c) THEN Done(PostErr("Auth", "Bluesky not configured"), <<>>)
    ELSE Await([platform |-> "bluesky", stage |-> "createSession", access_jwt |-> <<>>,
                truncated_text |->
                    Take(IF TrimIsEmpty(text) /\ IsSome(image_path) THEN <<32>> ELSE text,
                         BLUESKY_CHARACTER_LIMIT)],
               <<Net("bluesky", "com.atproto.server.createSession",
                     [identifier |-> c.handle, password |-> c.decrypted_password])>>)

\* bluesky_resume going on when the session carries no access token.
bluesky_resume_without_session(c, call, image_path, response) ==
    CASE call.stage = "createSession" ->
            (CASE response = "error" -> Done(PostErr("Network", "reqwest"), <<>>)
               [] response = "fail" ->
                    Done(PostErr("Auth", "Failed to authenticate with Bluesky"), <<>>)
               [] response = "ok_nojson" -> Done(PostErr("Network", "reqwest"), <<>>)
               [] response = "ok_missing" ->
                    BlueskyAfterSession(c, [call EXCEPT !.access_jwt = AccessJwt(response)],
                                        image_path)
               [] response = "ok" ->
                    BlueskyAfterSession(c, [call EXCEPT !.access_jwt = AccessJwt(response)],
                                        image_path))
      [] call.stage = "uploadBlob" ->
            (CASE response = "error" -> Done(PostErr("Network", "reqwest"), <<>>)
               [] response = "fail" -> BlueskyCreateRecord(c, call, FALSE)
               [] response = "ok_nojson" -> Done(PostErr("Network", "reqwest"), <<>>)
               [] response = "ok_missing" -> BlueskyCreateRecord(c, call, FALSE)
               [] response = "ok" -> BlueskyCreateRecord(c, call, TRUE))
      [] call.stage = "createRecord" ->
            (CASE response = "error" -> Done(PostErr("Network", "reqwest"), <<>>)
               [] response = "fail" ->
                    Done(PostErrWith("Api", "Bluesky API error", ErrorText(response)), <<>>)
               [] OTHER -> Done(PostOk, <<>>))

\* bluesky_resume without the test of the status of the createRecord response.
bluesky_resume_unchecked_record(c, call, image_path, response) ==
    CASE call.stage = "createSession" ->
            (CASE response = "error" -> Done(PostErr("Network", "reqwest"), <<>>)
               [] response = "fail" ->
                    Done(PostErr("Auth", "Failed to authenticate with Bluesky"), <<>>)
               [] response = "ok_nojson" -> Done(PostErr("Network", "reqwest"), <<>>)
               [] response = "ok_missing" ->
                    Done(PostErr("Auth", "No access token received"), <<>>)
               [] response = "ok" ->
                    BlueskyAfterSession(c, [call EXCEPT !.access_jwt = AccessJwt(response)],
                                        image_path))
      [] call.stage = "uploadBlob" ->
            (CASE response = "error" -> Done(PostErr("Network", "reqwest"), <<>>)
               [] response = "fail" -> BlueskyCreateRecord(c, call, FALSE)
               [] response = "ok_nojson" -> Done(PostErr("Network", "reqwest"), <<>>)
               [] response = "ok_missing" -> BlueskyCreateRecord(c, call, FALSE)
               [] response = "ok" -> BlueskyCreateRecord(c, call, TRUE))
      [] call.stage = "createRecord" ->
            (CASE response = "error" -> Done(PostErr("Network", "reqwest"), <<>>)
               [] OTHER -> Done(PostOk, <<>>))

bluesky_resume(c, call, image_path, response) ==
    CASE call.stage = "createSession" ->
            (CASE response = "error" -> Done(PostErr("Network", "reqwest"), <<>>)
               [] response = "fail" ->
                    Done(PostErr("Auth", "Failed to authenticate with Bluesky"), <<>>)
               [] response = "ok_nojson" -> Done(PostErr("Network", "reqwest"), <<>>)
               [] response = "ok_missing" ->
                    Done(PostErr("Auth", "No access token received"), <<>>)
               [] response = "ok" ->
                    BlueskyAfterSession(c, [call EXCEPT !.access_jwt = AccessJwt(response)],
                                        image_path))
      [] call.stage = "uploadBlob" ->
            (CASE response = "error" -> Done(PostErr("Network", "reqwest"), <<>>)
               [] response = "fail" -> BlueskyCreateRecord(c, call, FALSE)
               [] response = "ok_nojson" -> Done(PostErr("Network", "reqwest"), <<>>)
               [] response = "ok_missing" -> BlueskyCreateRecord(c, call, FALSE)
               [] response = "ok" -> BlueskyCreateRecord(c, call, TRUE))
      [] call.stage = "createRecord" ->
            (CASE response = "error" -> Done(PostErr("Network", "reqwest"), <<>>)
               [] response = "fail" ->
                    Done(PostErrWith("Api", "Bluesky API error", ErrorText(response)), <<>>)
               [] OTHER -> Done(PostOk, <<>>))

MastodonStatuses(c, text, media) ==
    Await([platform |-> "mastodon", stage |-> "statuses"],
          <<Net("mastodon", "/api/v1/statuses",
                [base |-> TrimEndSlash(c.instance_url), token |-> c.decrypted_access_token,
                 status |-> text, media |-> media])>>)

\* post_to_mastodon going on without the media when the image cannot be read.
post_to_mastodon_skipping_image(c, text, image_path) ==
    IF ~MastodonConfigured(c) THEN Done(PostErr("Auth", "Mastodon not configured"), <<>>)
    ELSE IF ~IsSome(image_path) THEN MastodonStatuses(c, text, FALSE)
    ELSE IF ~IsSome(FileLen(Unwrap(image_path)))
         THEN [MastodonStatuses(c, text, FALSE) EXCEPT
                  !.io = <<FsRead("mastodon", Unwrap(image_path))>> \o @]
    ELSE Await([platform |-> "mastodon", stage |-> "media"],
               <<FsRead("mastodon", Unwrap(image_path)),
                 Net("mastodon", "/api/v2/media",
                     [base |-> TrimEndSlash(c.instance_url),
                      token |-> c.decrypted_access_token,
                      status |-> <<>>, media |-> TRUE])>>)

post_to_mastodon(c, text, image_path) ==
    IF ~MastodonConfigured(c) THEN Done(PostErr("Auth", "Mastodon not configured"), <<>>)
    ELSE IF ~IsSome(image_path) THEN MastodonStatuses(c, text, FALSE)
    ELSE IF ~IsSome(FileLen(Unwrap(image_path)))
         THEN Done(PostErr("Api", "Failed to read image"),
                   <<FsRead("mastodon", Unwrap(image_path))>>)
    ELSE Await([platform |-> "mastodon", stage |-> "media"],
               <<FsRead("mastodon", Unwrap(image_path)),
                 Net("mastodon", "/api/v2/media",
                     [base |-> TrimEndSlash(c.instance_url),
                      token |-> c.decrypted_access_token,
                      status |-> <<>>, media |-> TRUE])>>)

\* mastodon_resume giving up when the media upload is refused.
mastodon_resume_failing_media(c, call, text, response) ==
    CASE call.stage = "media" ->
            (CASE response = "error" -> Done(PostErr("Network", "reqwest"), <<>>)
               [] response = "fail" ->
                    Done(PostErrWith("Api", "Mastodon API error", ErrorText(response)), <<>>)
               [] response = "ok_nojson" -> Done(PostErr("Network", "reqwest"), <<>>)
               [] response = "ok" ->
                    MastodonStatuses(c, text, TRUE)
               [] OTHER -> MastodonStatuses(c, text, FALSE))
      [] call.stage = "statuses" ->
            (CASE response = "error" -> Done(PostErr("Network", "reqwest"), <<>>)
               [] response = "fail" ->
                    Done(PostErrWith("Api", "Mastodon API error", ErrorText(response)), <<>>)
               [] OTHER -> Done(PostOk, <<>>))

mastodon_resume(c, call, text, response) ==
    CASE call.stage = "media" ->
            (CASE response = "error" -> Done(PostErr("Network", "reqwest"), <<>>)
               [] response = "ok_nojson" -> Done(PostErr("Network", "reqwest"), <<>>)
               [] response = "ok" ->
                    MastodonStatuses(c, text, TRUE)
               [] OTHER -> MastodonStatuses(c, text, FALSE))
      [] call.stage = "statuses" ->
            (CASE response = "error" -> Done(PostErr("Network", "reqwest"), <<>>)
               [] response = "fail" ->
                    Done(PostErrWith("Api", "Mastodon API error", ErrorText(response)), <<>>)
               [] OTHER -> Done(PostOk, <<>>))

\* SecretKey::from_hex: 64 hexadecimal digits (the inputs of this model hold no
\* key outside the range of the curve).
HexDigits == (48..57) \cup (65..70) \cup (97..102)

from_hex(s) == Len(s) = 64 /\ \A i \in 1..Len(s) : s[i] \in HexDigits

\* post_to_nostr reading the attached image as the other adapters do.
post_to_nostr_reading_image(c, text, image_path) ==
    IF ~NostrConfigured(c) THEN Done(PostErr("Auth", "Nostr not configured"), <<>>)
    ELSE IF ~from_hex(c.decrypted_private_key)
         THEN Done(PostErr("Crypto", "Invalid private key"), <<>>)
    ELSE IF IsSome(image_path) /\ ~IsSome(FileLen(Unwrap(image_path)))
         THEN Done(PostErr("Api", "Failed to read image"),
                   <<FsRead("nostr", Unwrap(image_path))>>)
    ELSE Await([platform |-> "nostr", stage |-> "send_event"],
               (IF IsSome(image_path) THEN <<FsRead("nostr", Unwrap(image_path))>> ELSE <<>>)
               \o <<Net("nostr", "connect", [relays |-> c.relays, text |-> <<>>]),
                     Net("nostr", "send_event", [relays |-> c.relays, text |-> text])>>)

\* post_to_nostr setting up the relay pool before it parses the key.
post_to_nostr_connecting_first(c, text, image_path) ==
    IF ~NostrConfigured(c) THEN Done(PostErr("Auth", "Nostr not configured"), <<>>)
    ELSE IF ~from_hex(c.decrypted_private_key)
         THEN Done(PostErr("Crypto", "Invalid private key"),
                   <<Net("nostr", "connect", [relays |-> c.relays, text |-> <<>>])>>)
    ELSE Await([platform |-> "nostr", stage |-> "send_event"],
               <<Net("nostr", "connect", [relays |-> c.relays, text |-> <<>>]),
                 Net("nostr", "send_event", [relays |-> c.relays, text |-> text])>>)

\* add_relay only fills the pool; connect() opens the connections and returns
\* without a result, and send_event is the request that is answered.
post_to_nostr(c, text, image_path) ==
    IF ~NostrConfigured(c) THEN Done(PostErr("Auth", "Nostr not configured"), <<>>)
    ELSE IF ~from_hex(c.decrypted_private_key)
         THEN Done(PostErr("Crypto", "Invalid private key"), <<>>)
    ELSE Await([platform |-> "nostr", stage |-> "send_event"],
               <<Net("nostr", "connect", [relays |-> c.relays, text |-> <<>>]),
                 Net("nostr", "send_event", [relays |-> c.relays, text |-> text])>>)

nostr_resume(c, call, response) ==
    IF response \in {"error", "fail"}
    THEN Done(PostErr("Api", "Failed to post to any Nostr relays"), <<>>)
    ELSE Done(PostOk, <<>>)

post_to_microblog(c, text, image_path) ==
    IF ~MicroBlogConfigured(c) THEN Done(PostErr("Auth", "Micro.Blog not configured"), <<>>)
    ELSE IF ~IsSome(image_path)
         THEN Await([platform |-> "microblog", stage |-> "micropub"],
                    <<Net("microblog", "micropub",
                          [token |-> c.decrypted_access_token, content |-> text,
                           photo |-> FALSE])>>)
    ELSE IF ~IsSome(FileLen(Unwrap(image_path)))
         THEN Done(PostErr("Api", "Failed to read image"),
                   <<FsRead("microblog", Unwrap(image_path))>>)
    ELSE Await([platform |-> "microblog", stage |-> "micropub"],
               <<FsRead("microblog", Unwrap(image_path)),
                 Net("microblog", "micropub",
                     [token |-> c.decrypted_access_token, content |-> text,
                      photo |-> TRUE])>>)

\* microblog_resume reporting a transport failure as an error of the API.
microblog_resume_api_on_transport(c, call, response) ==
    CASE response \in {"error", "fail"} ->
            Done(PostErrWith("Api", "Micro.Blog API error", ErrorText(response)), <<>>)
      [] OTHER -> Done(PostOk, <<>>)

microblog_resume(c, call, response) ==
    CASE response = "error" -> Done(PostErr("Network", "reqwest"), <<>>)
      [] response = "fail" ->
            Done(PostErrWith("Api", "Micro.Blog API error", ErrorText(response)), <<>>)
      [] OTHER -> Done(PostOk, <<>>)

----------------------------------------------------------------------------
(* app.rs: the async block that Message::PostSubmit hands to Task::perform.   *)
(* It owns `post` (the captured config, text, attached_image and flags) and   *)
(* runs the selected adapters one after the other, each to completion.        *)

PostOrder == <<"bluesky", "mastodon", "microblog", "nostr">>

Tag(p) ==
    CASE p = "bluesky" -> "Bluesky" [] p = "mastodon" -> "Mastodon"
      [] p = "microblog" -> "Micro.Blog" [] p = "nostr" -> "Nostr"

\* An orchestrator that calls the adapters of the enabled platforms.
ShouldCallEnabled(p) ==
    CASE p = "bluesky" -> post.config.bluesky.enabled
      [] p = "mastodon" -> post.config.mastodon.enabled
      [] p = "microblog" -> post.config.microblog.enabled
      [] p = "nostr" -> post.config.nostr.enabled

\* A block that reads the toggles of the application instead of its own.
SelectedNow(captured, p) == app.post_to[p]

\* A block that goes by the enabled flags of the captured configuration.
SelectedEnabled(captured, p) ==
    CASE p = "bluesky" -> captured.config.bluesky.enabled
      [] p = "mastodon" -> captured.config.mastodon.enabled
      [] p = "microblog" -> captured.config.microblog.enabled
      [] p = "nostr" -> captured.config.nostr.enabled

\* if post_to_bluesky { ... } and the three like it, on the values the block
\* captured
Selected(captured, p) == captured.post_to[p]

ShouldCall(p) == Selected(post, p)

begin_adapter(captured, p) ==
    CASE p = "bluesky" ->
            post_to_bluesky(captured.config.bluesky, captured.text, captured.attached_image)
      [] p = "mastodon" ->
            post_to_mastodon(captured.config.mastodon, captured.text, captured.attached_image)
      [] p = "microblog" ->
            post_to_microblog(captured.config.microblog, captured.text,
                              captured.attached_image)
      [] p = "nostr" ->
            post_to_nostr(captured.config.nostr, captured.text, captured.attached_image)

adapter_begin(p) == begin_adapter(post, p)

resume_adapter(captured, call, response) ==
    CASE call.platform = "bluesky" ->
            bluesky_resume(captured.config.bluesky, call, captured.attached_image, response)
      [] call.platform = "mastodon" ->
            mastodon_resume(captured.config.mastodon, call, captured.text, response)
      [] call.platform = "microblog" ->
            microblog_resume(captured.config.microblog, call, response)
      [] call.platform = "nostr" -> nostr_resume(captured.config.nostr, call, response)

adapter_resume(call, response) == resume_adapter(post, call, response)

TaskDone == Len(PostOrder) + 1

\* An orchestrator that returns at the first adapter error.
AfterAdapterReturning(t, p, res) ==
    [t EXCEPT !.pc = IF res.ok THEN @ + 1 ELSE TaskDone,
              !.call = None,
              !.errors = IF res.ok THEN @ ELSE Append(@, [tag |-> Tag(p), error |-> res.err])]

\* if let Err(e) = social::post_to_...(...).await { errors.push(format!("...: {}", e)); }
AfterAdapter(t, p, res) ==
    [t EXCEPT !.pc = @ + 1,
              !.call = None,
              !.errors = IF res.ok THEN @ ELSE Append(@, [tag |-> Tag(p), error |-> res.err])]

\* An output that reports the first error only.
TaskOutputFirstOnly(errors) ==
    IF errors = <<>> THEN [ok |-> TRUE, kind |-> "none", entries |-> <<>>]
    ELSE [ok |-> FALSE, kind |-> "Api", entries |-> <<errors[1]>>]

\* Ok(()) or Err(PostError::Api(errors.join("; "))): entries are the joined
\* strings, in the order of the vector.
TaskOutput(errors) ==
    IF errors = <<>> THEN [ok |-> TRUE, kind |-> "none", entries |-> <<>>]
    ELSE [ok |-> FALSE, kind |-> "Api", entries |-> errors]

TaskNew == [pc |-> 1, errors |-> <<>>, call |-> None, output |-> None]

AdapterCalled(p) == [kind |-> "call", platform |-> p, target |-> "adapter", body |-> PostOk]

\* The answer to the request of the given stage that the adapter awaited.
Responded(call, response) ==
    [kind |-> "response", platform |-> call.platform, target |-> call.stage,
     body |-> [status |-> response, text |-> ErrorText(response)]]

AdapterReturned(p, res) ==
    [kind |-> "return", platform |-> p, target |-> "adapter", body |-> res]

\* The task after a step s of the adapter of platform p, and what the step
\* adds to io_log.
TaskAfter(t, p, s) == IF s.done THEN AfterAdapter(t, p, s.res) ELSE [t EXCEPT !.call = s.call]

LogAfter(p, s) == s.io \o (IF s.done THEN <<AdapterReturned(p, s.res)>> ELSE <<>>)

----------------------------------------------------------------------------
(* SpecCipher: the calls of CryptoManager on inputs drawn from bounded sets *)

\* Longest secret, in scalar values.
MaxPlainLen == 2

Plaintexts == SeqsUpTo(Chars, MaxPlainLen)

\* Four environments: nothing set (the defaults are used), HOSTNAME and USER set,
\* only COMPUTERNAME and USERNAME set, and all four set.
EnvOf(h, c, u, n) == [HOSTNAME |-> h, COMPUTERNAME |-> c, USER |-> u, USERNAME |-> n]

Envs == {EnvOf(None, None, None, None),
         EnvOf(Some(<<97>>), None, Some(<<97>>), None),
         EnvOf(None, Some(<<233>>), None, Some(<<97, 45, 97>>)),
         EnvOf(Some(<<97>>), Some(<<233>>), Some(<<97>>), Some(<<97, 45, 97>>))}

Passphrases == {<<97, 233>>}

CallResult(op, res, origin, data) ==
    [op |-> op, res |-> res, key |-> crypto_manager.master_key, origin |-> origin,
     data |-> data]

CipherInit ==
    /\ env \in Envs
    /\ secret \in Plaintexts
    /\ crypto_manager = CryptoManagerNew
    /\ encrypted = None
    /\ enc_origin = None
    /\ last_result = [op |-> "new", res |-> Ok("unit"), key |-> None, origin |-> None,
                      data |-> None]
    /\ config = "unused"
    /\ enc_calls = 0
    /\ post = "unused"
    /\ task = "unused"
    /\ io_log = <<>>
    /\ app = "unused"
    /\ disk = "unused"
    /\ updates = 0
    /\ edits = 0
    /\ saves = 0
    /\ memory = "unused"

\* init_with_machine_key deriving the key with a salt generated at each call,
\* as init_with_password does.
CallInitWithMachineKeyFreshSalt ==
    \E hash_ok \in BOOLEAN, salt \in RandomSalts \cup {FixedSalt} :
        LET r == init_with_password(crypto_manager, MachineKeyInput(env), salt, hash_ok)
        IN /\ crypto_manager' = r.cm
           /\ last_result' = [op |-> "init_with_machine_key", res |-> r.res,
                              key |-> r.cm.master_key, origin |-> None,
                              data |-> None, prior |-> last_result.op]
           /\ UNCHANGED <<env, secret, encrypted, enc_origin>>

\* `prior` is the call before this one: "new" when the manager is a new one.
CallInitWithMachineKey ==
    \E hash_ok \in BOOLEAN :
        LET r == init_with_machine_key(crypto_manager, env, hash_ok)
        IN /\ crypto_manager' = r.cm
           /\ last_result' = [op |-> "init_with_machine_key", res |-> r.res,
                              key |-> r.cm.master_key, origin |-> None,
                              data |-> None, prior |-> last_result.op]
           /\ UNCHANGED <<env, secret, encrypted, enc_origin>>

CallInitWithPassword ==
    \E password \in Passphrases, salt \in RandomSalts, hash_ok \in BOOLEAN :
        LET r == init_with_password(crypto_manager, password, salt, hash_ok)
        IN /\ crypto_manager' = r.cm
           /\ last_result' = [op |-> "init_with_password", res |-> r.res,
                              key |-> r.cm.master_key, origin |-> None,
                              data |-> None]
           /\ UNCHANGED <<env, secret, encrypted, enc_origin>>

\* encrypt(secret); enc_origin records the key that produced `encrypted`, and
\* `data` of the result holds the nonce of the encryption before this one when
\* that one was made under the same key.
CallEncrypt ==
    \E nonce \in Nonces, salt \in RandomSalts :
        LET r == encrypt(crypto_manager, secret, nonce, salt)
        IN /\ last_result' =
                 [CallResult("encrypt", r, Some(crypto_manager.master_key), None) EXCEPT
                    !.data = IF IsSome(encrypted) /\ enc_origin = Some(crypto_manager.master_key)
                             THEN Some(Unwrap(encrypted).nonce) ELSE None]
           /\ IF r.ok
              THEN /\ encrypted' = Some(OkVal(r))
                   /\ enc_origin' = Some(crypto_manager.master_key)
              ELSE UNCHANGED <<encrypted, enc_origin>>
           /\ UNCHANGED <<env, secret, crypto_manager>>

\* The bit of the given weight (1, 2, ..., 128) of a byte, flipped.
FlipBit(byte, weight) ==
    IF (byte \div weight) % 2 = 0 THEN byte + weight ELSE byte - weight

\* The bits that are flipped: the lowest and the highest bit of the first and
\* of the last byte.
FlipWeights == {1, 128}

FlipAt(bytes, i, weight) ==
    [j \in 1..Len(bytes) |-> IF j = i THEN FlipBit(bytes[j], weight) ELSE bytes[j]]

\* The stored EncryptedData is changed outside the program: one bit of the
\* ciphertext body, of the tag or of the nonce is flipped, or the nonce loses
\* its last byte.
FlipBody(data, i, weight) == [data EXCEPT !.ciphertext.body = FlipAt(@, i, weight)]

FlipTag(data) == [data EXCEPT !.ciphertext.tag.flip = 1]

FlipNonce(data, i, weight) == [data EXCEPT !.nonce = FlipAt(@, i, weight)]

CutNonce(data) == [data EXCEPT !.nonce = SubSeq(@, 1, Len(@) - 1)]

PadNonce(data) == [data EXCEPT !.nonce = Append(@, 0)]

EmptyNonce(data) == [data EXCEPT !.nonce = <<>>]

\* An EncryptedData whose nonce has 11, 13 or 0 bytes.
WrongLength(data) == {CutNonce(data), PadNonce(data), EmptyNonce(data)}

BitFlipped(data) ==
    {FlipTag(data)}
    \cup {FlipNonce(data, i, w) : i \in {1, Len(data.nonce)}, w \in FlipWeights}
    \cup {FlipBody(data, i, w) : i \in {1, Len(data.ciphertext.body)} \cap DOMAIN data.ciphertext.body,
                               w \in FlipWeights}

Tampered(data) == BitFlipped(data) \cup WrongLength(data)

\* decrypt is called on the EncryptedData at hand, as it is or changed on its
\* way through the configuration file; `origin` is the key that produced the
\* data when it is unchanged, and None when it is changed.
CallDecrypt ==
    /\ IsSome(encrypted)
    /\ \E data \in {Unwrap(encrypted)} \cup Tampered(Unwrap(encrypted)) :
          last_result' = CallResult("decrypt", decrypt(crypto_manager, data),
                                    IF data = Unwrap(encrypted) THEN enc_origin ELSE None,
                                    Some(data))
    /\ UNCHANGED <<env, secret, crypto_manager, encrypted, enc_origin>>

\* The process starts again: a manager is constructed anew, and the
\* EncryptedData, which is persisted, is still at hand.
CallNew ==
    /\ IsSome(crypto_manager.master_key)
    /\ crypto_manager' = CryptoManagerNew
    /\ last_result' = [op |-> "new", res |-> Ok("unit"), key |-> None, origin |-> None,
                       data |-> None]
    /\ UNCHANGED <<env, secret, encrypted, enc_origin>>

CipherNext ==
    \/ CallNew
    \/ CallInitWithMachineKey
    \/ CallInitWithPassword
    \/ CallEncrypt
    \/ CallDecrypt

SpecCipher == CipherInit /\ [][CipherNext /\ UNCHANGED <<config, enc_calls>> /\ UNCHANGED publish_vars /\ UNCHANGED app_vars /\ UNCHANGED memory]_vars

\* Some key is loaded and it is the key `e` was encrypted under.
SameLoadedKey(r) ==
    /\ IsSome(r.origin)
    /\ IsSome(r.key)
    /\ Unwrap(r.origin) = r.key

\* C1: decrypt applied to the unmodified output of encrypt(s), s non-empty, under
\* the key that encrypted it returns Ok(s).
RoundTrip ==
    (/\ last_result.op = "decrypt"
     /\ SameLoadedKey(last_result)
     /\ secret # <<>>)
    => /\ last_result.res.ok
       /\ OkVal(last_result.res) = secret

\* A secret of two multi-byte scalar values has been encrypted and decrypted
\* under the machine key.
RoundTripWitness ==
    /\ last_result.op = "decrypt"
    /\ SameLoadedKey(last_result)
    /\ Unwrap(last_result.key).salt = FixedSalt
    /\ secret = <<8364, 128640>>
    /\ last_result.res.ok

\* The EncryptedData at hand is an output of encrypt with one bit flipped (its
\* nonce still has NONCE_LEN bytes), or the loaded key is not the one that
\* encrypted it.
FlippedOrOtherKey(r) ==
    /\ Len(Unwrap(r.data).nonce) = NONCE_LEN
    /\ \/ ~IsSome(r.origin)
       \/ /\ IsSome(r.origin)
          /\ Unwrap(r.origin) # r.key

\* C12: decrypt of an output of encrypt(secret) in which one bit of the
\* ciphertext (body or tag) or of the nonce was flipped, or under another key
\* than the one that encrypted it, returns Err(DecryptionFailed); and whenever
\* decrypt returns Ok, it returns the secret that was encrypted.
TamperDetected ==
    last_result.op = "decrypt" =>
        /\ FlippedOrOtherKey(last_result)
              => /\ ~last_result.res.ok
                 /\ last_result.res.err = "DecryptionFailed"
        /\ last_result.res.ok => OkVal(last_result.res) = secret

\* decrypt has failed, under the key that encrypted the secret, on an
\* EncryptedData whose ciphertext body has one bit flipped.
TamperDetectedWitness ==
    /\ last_result.op = "decrypt"
    /\ ~last_result.res.ok
    /\ ~IsSome(last_result.origin)
    /\ \E nonce \in Nonces, salt \in RandomSalts :
          /\ encrypt(crypto_manager, secret, nonce, salt).ok
          /\ \E w \in FlipWeights :
                Unwrap(last_result.data) =
                    FlipBody(OkVal(encrypt(crypto_manager, secret, nonce, salt)), 1, w)

\* decrypt has just been called on an EncryptedData whose nonce has not
\* NONCE_LEN bytes.
DecryptedWrongLength ==
    /\ last_result.op = "decrypt"
    /\ Len(Unwrap(last_result.data).nonce) # NONCE_LEN

\* C13: decrypt of an EncryptedData whose nonce is not exactly NONCE_LEN bytes
\* long returns Err(InvalidData), whatever the state of the manager.
WrongLengthIsInvalidData ==
    DecryptedWrongLength =>
        /\ ~last_result.res.ok
        /\ last_result.res.err = "InvalidData"

\* C13 as amended: with a master key loaded, decrypt of an EncryptedData whose
\* nonce is not exactly NONCE_LEN bytes long returns Err(InvalidData); with no
\* key loaded it returns Err(DecryptionFailed); it returns an error of
\* CryptoError in both cases.
WrongLengthWithKeyIsInvalidData ==
    DecryptedWrongLength =>
        /\ ~last_result.res.ok
        /\ last_result.res.err =
              IF IsSome(last_result.key) THEN "InvalidData" ELSE "DecryptionFailed"

\* decrypt has returned InvalidData for a nonce of NONCE_LEN + 1 bytes under
\* the key that encrypted the data.
WrongLengthWitness ==
    /\ DecryptedWrongLength
    /\ IsSome(last_result.key)
    /\ Len(Unwrap(last_result.data).nonce) = NONCE_LEN + 1
    /\ last_result.res = Err("InvalidData")

\* C14: a call of encrypt or decrypt on a manager with no master key returns
\* Err(EncryptionFailed), respectively Err(DecryptionFailed), and leaves the
\* manager as it was.
NoKeyFails ==
    [][(/\ ~IsSome(crypto_manager.master_key)
        /\ last_result'.op \in {"encrypt", "decrypt"})
       => /\ crypto_manager' = crypto_manager
          /\ last_result'.res = IF last_result'.op = "encrypt"
                                 THEN Err("EncryptionFailed")
                                 ELSE Err("DecryptionFailed")]_vars

\* decrypt has failed on a manager with no key, on an EncryptedData that an
\* earlier manager produced and nothing has changed since.
NoKeyFailsWitness ==
    /\ last_result.op = "decrypt"
    /\ ~IsSome(crypto_manager.master_key)
    /\ last_result.data = encrypted
    /\ IsSome(last_result.origin)
    /\ last_result.res = Err("DecryptionFailed")

\* A key that init_with_machine_key derived in this environment: its input
\* is the string made of the machine and the user identifiers.
IsMachineKey(k) == IsSome(k) /\ Unwrap(k).password = MachineKeyInput(env)

\* C21: the key a manager holds after init_with_machine_key is the key that
\* any earlier manager derived with init_with_machine_key in the same
\* environment, so that decrypt, on the unchanged output of an encrypt under
\* the earlier machine key, returns the secret.
MachineKeyDeterministic ==
    (/\ IsSome(enc_origin)
     /\ IsMachineKey(Unwrap(enc_origin))
     /\ IsMachineKey(crypto_manager.master_key))
    => /\ crypto_manager.master_key = Unwrap(enc_origin)
       /\ (last_result.op = "decrypt" /\ last_result.data = encrypted)
             => last_result.res = Ok(secret)

\* A new manager, made after a secret was encrypted under the machine key, has
\* derived the machine key again and holds the key that encrypted the secret.
MachineKeyDeterministicWitness ==
    /\ last_result.op = "init_with_machine_key"
    /\ last_result.prior = "new"
    /\ last_result.res.ok
    /\ IsSome(enc_origin)
    /\ IsMachineKey(Unwrap(enc_origin))
    /\ crypto_manager.master_key = Unwrap(enc_origin)
    /\ secret = <<8364, 128640>>

\* The salt that init_with_password returned to its caller, if any: the call
\* returns Ok(()) ("unit") or an error.
ReturnedSalt(res) ==
    IF ~res.ok \/ OkVal(res) = "unit" THEN None ELSE Some(OkVal(res))

\* C22: a successful init_with_password returns to its caller the salt with
\* which it derived the key it loaded.
PasswordSaltReturned ==
    (last_result.op = "init_with_password" /\ last_result.res.ok)
        => ReturnedSalt(last_result.res) = Some(Unwrap(last_result.key).salt)

\* encrypt has just returned an EncryptedData, and the one before it was made
\* under the same key (of the same secret: the secret does not change).
EncryptedAgain ==
    /\ last_result'.op = "encrypt"
    /\ last_result'.res.ok
    /\ IsSome(encrypted)
    /\ enc_origin = Some(crypto_manager.master_key)

\* C24 (as claimed): two successive calls of encrypt under one key return
\* different nonces and different ciphertexts.
NonceNeverRepeats ==
    [][EncryptedAgain =>
          /\ Unwrap(encrypted').nonce # Unwrap(encrypted).nonce
          /\ Unwrap(encrypted').ciphertext # Unwrap(encrypted).ciphertext]_vars

\* C24 as amended: two successive calls of encrypt under one key, of the same
\* plaintext, whose nonces differ return different ciphertexts (the body
\* followed by the tag); the nonces differ unless the random generator
\* returned the same value twice.
FreshNonceFreshCiphertext ==
    [][(EncryptedAgain /\ Unwrap(encrypted').nonce # Unwrap(encrypted).nonce)
          => Unwrap(encrypted').ciphertext # Unwrap(encrypted).ciphertext]_vars

\* A secret was encrypted twice under one key with two different nonces.
FreshNonceFreshCiphertextWitness ==
    /\ last_result.op = "encrypt"
    /\ last_result.res.ok
    /\ IsSome(last_result.data)
    /\ Unwrap(last_result.data) # Unwrap(encrypted).nonce
    /\ secret = <<97, 97>>

----------------------------------------------------------------------------
(* SpecDrop: the memory behind a CryptoManager and behind one EncryptedData,  *)
(* from construction to release.  `memory.manager` is the storage of the      *)
(* field master_key: the discriminant of the Option (tag) and the KEY_LEN     *)
(* bytes of its payload; `memory.key_local` is the local `key` of             *)
(* Drop::drop; `memory.data` holds the three buffers of the EncryptedData.    *)

\* Key::<Aes256Gcm>::from_slice(&key_bytes[..32])
KEY_LEN == 32

Zeros(n) == [i \in 1..n |-> 0]

AllZero(bytes) == \A i \in DOMAIN bytes : bytes[i] = 0

\* The bytes of a derived key: KEY_LEN bytes of the Argon2 hash, none of which
\* is taken to be 0 here.
KeyBytes(key) == [i \in 1..KEY_LEN |-> 1 + ((Len(key.password) + key.salt[2] + i) % 255)]

\* The Vec<u8> of the cipher: the body followed by the 16 bytes of the tag.
CiphertextBytes(c) == c.body \o [i \in 1..16 |-> i]

\* The 22 characters of a SaltString.
SaltBytes(salt) == [i \in 1..22 |-> 65 + salt[2]]

DropInit ==
    /\ env \in Envs
    /\ secret \in Plaintexts
    /\ crypto_manager = CryptoManagerNew
    /\ encrypted = None
    /\ enc_origin = None
    /\ last_result = [op |-> "new", res |-> Ok("unit"), key |-> None, origin |-> None,
                      data |-> None]
    /\ memory = [manager   |-> [pc |-> "live", tag |-> FALSE, bytes |-> Zeros(KEY_LEN)],
                 key_local |-> Zeros(KEY_LEN),
                 data      |-> [pc |-> "none", ciphertext |-> <<>>, nonce |-> <<>>,
                                salt |-> <<>>]]
    /\ config = "unused"
    /\ enc_calls = 0
    /\ post = "unused"
    /\ task = "unused"
    /\ io_log = <<>>
    /\ app = "unused"
    /\ disk = "unused"
    /\ updates = 0
    /\ edits = 0
    /\ saves = 0

\* self.master_key = Some(*key): the key is copied into the field.
StoreKey(cm) ==
    IF IsSome(cm.master_key)
    THEN [memory EXCEPT !.manager.tag = TRUE,
                        !.manager.bytes = KeyBytes(Unwrap(cm.master_key))]
    ELSE memory

DropCallInitWithMachineKey ==
    /\ memory.manager.pc = "live"
    /\ \E hash_ok \in BOOLEAN :
          \E r \in {init_with_machine_key(crypto_manager, env, hash_ok)} :
             /\ crypto_manager' = r.cm
             /\ memory' = IF r.res.ok THEN StoreKey(r.cm) ELSE memory
    /\ UNCHANGED <<env, secret, encrypted>>

DropCallInitWithPassword ==
    /\ memory.manager.pc = "live"
    /\ \E password \in Passphrases, salt \in RandomSalts, hash_ok \in BOOLEAN :
          \E r \in {init_with_password(crypto_manager, password, salt, hash_ok)} :
             /\ crypto_manager' = r.cm
             /\ memory' = IF r.res.ok THEN StoreKey(r.cm) ELSE memory
    /\ UNCHANGED <<env, secret, encrypted>>

\* encrypt returns an EncryptedData: its three buffers are allocated.
DropCallEncrypt ==
    /\ memory.manager.pc = "live"
    /\ memory.data.pc \in {"none", "released"}
    /\ \E nonce \in Nonces, salt \in RandomSalts :
          \E r \in {encrypt(crypto_manager, secret, nonce, salt)} :
             /\ r.ok
             /\ encrypted' = Some(OkVal(r))
             /\ memory' = [memory EXCEPT !.data =
                               [pc         |-> "live",
                                ciphertext |-> CiphertextBytes(OkVal(r).ciphertext),
                                nonce      |-> OkVal(r).nonce,
                                salt       |-> SaltBytes(OkVal(r).salt)]]
    /\ UNCHANGED <<env, secret, crypto_manager>>

\* Drop for EncryptedData: self.zeroize() overwrites the three buffers where
\* they are.
DataZeroize ==
    /\ memory.data.pc = "live"
    /\ memory' = [memory EXCEPT !.data =
                      [pc         |-> "zeroized",
                       ciphertext |-> Zeros(Len(memory.data.ciphertext)),
                       nonce      |-> Zeros(Len(memory.data.nonce)),
                       salt       |-> Zeros(Len(memory.data.salt))]]
    /\ encrypted' = None
    /\ UNCHANGED <<env, secret, crypto_manager>>

\* The buffers are handed back to the allocator as they are.
DataRelease ==
    /\ memory.data.pc = "zeroized"
    /\ memory' = [memory EXCEPT !.data.pc = "released"]
    /\ UNCHANGED <<env, secret, crypto_manager, encrypted>>

\* Drop for CryptoManager, self.master_key.take(): the Option is moved out into
\* the local `key` and None is written to the field.  Writing None sets the
\* discriminant; what the payload bytes of the field hold afterwards is not
\* specified: they are left as they were or overwritten.
ManagerTake ==
    /\ memory.manager.pc = "live"
    /\ \E left \in {memory.manager.bytes, Zeros(KEY_LEN)} :
          memory' = [memory EXCEPT
                        !.manager = [pc    |-> IF memory.manager.tag THEN "taken" ELSE "dropped",
                                     tag   |-> FALSE,
                                     bytes |-> left],
                        !.key_local = IF memory.manager.tag THEN memory.manager.bytes ELSE @]
    /\ crypto_manager' = CryptoManagerNew
    /\ UNCHANGED <<env, secret, encrypted>>

\* key.zeroize(): the local is overwritten.
ManagerZeroize ==
    /\ memory.manager.pc = "taken"
    /\ memory' = [memory EXCEPT !.manager.pc = "dropped", !.key_local = Zeros(KEY_LEN)]
    /\ UNCHANGED <<env, secret, crypto_manager, encrypted>>

\* drop returns and the memory of the manager is released as it is.
ManagerRelease ==
    /\ memory.manager.pc = "dropped"
    /\ memory' = [memory EXCEPT !.manager.pc = "released"]
    /\ UNCHANGED <<env, secret, crypto_manager, encrypted>>

DropNext ==
    \/ DropCallInitWithMachineKey
    \/ DropCallInitWithPassword
    \/ DropCallEncrypt
    \/ DataZeroize
    \/ DataRelease
    \/ ManagerTake
    \/ ManagerZeroize
    \/ ManagerRelease

SpecDrop ==
    DropInit /\ [][DropNext /\ UNCHANGED <<enc_origin, last_result, config, enc_calls>>
                            /\ UNCHANGED publish_vars /\ UNCHANGED app_vars]_vars

\* C25: the released memory of a CryptoManager holds no byte of its master key
\* (the field and the local of drop are all zeros), and the released buffers
\* of an EncryptedData are all zeros.
ZeroizedOnDrop ==
    /\ memory.manager.pc = "released"
          => AllZero(memory.manager.bytes) /\ AllZero(memory.key_local)
    /\ memory.data.pc = "released"
          => /\ AllZero(memory.data.ciphertext)
             /\ AllZero(memory.data.nonce)
             /\ AllZero(memory.data.salt)

----------------------------------------------------------------------------
(* SpecStore: decrypt_credentials and encrypt_credentials on configurations   *)
(* drawn from a bounded set: each persisted secret is absent, an encryption   *)
(* of "a" under the loaded key, or an encryption under the key of another     *)
(* machine, and each decrypted field is empty or holds U+1F680.               *)

StoreEnv == EnvOf(Some(<<97>>), None, Some(<<97>>), None)

OtherEnv == EnvOf(None, None, None, None)

\* The salt of an EncryptedData is written and never read: the bulk operations
\* draw one value for it.
StoreDraws == [nonce : Nonces, salt : {<<"generated", 0>>}]

StoredChoices(key) ==
    {None,
     Some(OkVal(encrypt([master_key |-> Some(key)], <<97>>, Nonce(0), <<"generated", 0>>))),
     Some(OkVal(encrypt(init_with_machine_key(CryptoManagerNew, OtherEnv, TRUE).cm,
                        <<97>>, Nonce(0), <<"generated", 0>>)))}

FieldChoices == {<<>>, <<128640>>}

StoreConfigs(key) ==
    {[bluesky   |-> BlueskyConfig(TRUE, <<97>>, s[1], d[1]),
      mastodon  |-> MastodonConfig(TRUE, <<97>>, s[2], d[2]),
      nostr     |-> NostrConfig(TRUE, s[4], <<<<97>>>>, d[4]),
      microblog |-> MicroBlogConfig(TRUE, s[3], d[3])] :
        s \in [1..4 -> StoredChoices(key)], d \in [1..4 -> FieldChoices]}

StoreResult(op, res) == [op |-> op, res |-> res, key |-> None, origin |-> None]

StoreInit ==
    /\ env = StoreEnv
    /\ \E hash_ok \in BOOLEAN :
          crypto_manager = init_with_machine_key(CryptoManagerNew, env, hash_ok).cm
    /\ config \in StoreConfigs(Unwrap(init_with_machine_key(CryptoManagerNew, env, TRUE).cm.master_key))
    /\ enc_calls = 0
    /\ post = "unused"
    /\ task = "unused"
    /\ io_log = <<>>
    /\ app = "unused"
    /\ disk = "unused"
    /\ updates = 0
    /\ edits = 0
    /\ saves = 0
    /\ memory = "unused"
    /\ last_result = StoreResult("new", Ok("unit"))
    /\ secret = <<>>
    /\ encrypted = None
    /\ enc_origin = None

\* enc_calls counts the successful encrypt_credentials calls made in a row
\* (up to 2).
\* OsRng is read once for each platform whose decrypted field is not empty.
DrawsFor(cfg, p) ==
    IF DecryptedOf(cfg, p) = <<>> THEN {[nonce |-> Nonce(0), salt |-> <<"generated", 0>>]}
    ELSE StoreDraws

RngChoices(cfg) ==
    {[p \in Platforms |-> CASE p = "bluesky" -> b [] p = "mastodon" -> m
                                [] p = "microblog" -> u [] p = "nostr" -> n] :
        b \in DrawsFor(cfg, "bluesky"), m \in DrawsFor(cfg, "mastodon"),
        u \in DrawsFor(cfg, "microblog"), n \in DrawsFor(cfg, "nostr")}

CallEncryptCredentials ==
    \E rng \in RngChoices(config) :
        \E r \in {encrypt_credentials(config, crypto_manager, rng)} :
           /\ config' = r.config
           /\ last_result' = StoreResult("encrypt_credentials", r.res)
           /\ enc_calls' = IF r.res.ok THEN (IF enc_calls < 2 THEN enc_calls + 1 ELSE 2) ELSE 0
           /\ UNCHANGED <<env, crypto_manager, secret, encrypted, enc_origin>>

CallDecryptCredentials ==
    \E r \in {decrypt_credentials(config, crypto_manager)} :
       /\ config' = r.config
       /\ last_result' = StoreResult("decrypt_credentials", r.res)
       /\ enc_calls' = 0
       /\ UNCHANGED <<env, crypto_manager, secret, encrypted, enc_origin>>

\* The configuration is written and read back (serde).
ReloadConfig ==
    /\ config' = Persisted(config)
    /\ last_result' = StoreResult("reload", Ok("unit"))
    /\ enc_calls' = 0
    /\ UNCHANGED <<env, crypto_manager, secret, encrypted, enc_origin>>

StoreNext ==
    \/ CallEncryptCredentials
    \/ CallDecryptCredentials
    \/ ReloadConfig

SpecStore == StoreInit /\ [][StoreNext /\ UNCHANGED publish_vars /\ UNCHANGED app_vars /\ UNCHANGED memory]_vars

Decryptable(cfg, p) ==
    /\ IsSome(Stored(cfg, p))
    /\ decrypt(crypto_manager, Unwrap(Stored(cfg, p))).ok

PlainOf(cfg, p) == OkVal(decrypt(crypto_manager, Unwrap(Stored(cfg, p))))

Undecryptable(cfg, p) ==
    /\ IsSome(Stored(cfg, p))
    /\ ~decrypt(crypto_manager, Unwrap(Stored(cfg, p))).ok

\* C2 (as claimed): a decrypt_credentials call leaves the decrypted field of a
\* platform whose persisted secret cannot be decrypted as it was, and fills the
\* decrypted field of every platform whose persisted secret is present and
\* decryptable, wherever the platform stands in the order.
DecryptAllContinues ==
    [][CallDecryptCredentials =>
        \A p \in Platforms :
            /\ Undecryptable(config, p) => DecryptedOf(config', p) = DecryptedOf(config, p)
            /\ Decryptable(config, p) => DecryptedOf(config', p) = PlainOf(config, p)]_vars


\* C9: an encrypt_credentials call leaves the persisted secret of every platform
\* whose decrypted field is empty exactly as it was, and when it returns Ok the
\* persisted secret of every platform whose decrypted field is not empty
\* decrypts to that field's value.
EncryptAllKeepsBlank ==
    [][CallEncryptCredentials =>
        \A p \in Platforms :
            /\ DecryptedOf(config, p) = <<>> => Stored(config', p) = Stored(config, p)
            /\ (last_result'.res.ok /\ DecryptedOf(config, p) # <<>>)
                   => /\ Decryptable(config', p)
                      /\ PlainOf(config', p) = DecryptedOf(config, p)]_vars

\* A successful encrypt_credentials call has met a platform with an empty field
\* and a persisted secret, and another platform with a field to encrypt.
EncryptAllKeepsBlankWitness ==
    /\ last_result.op = "encrypt_credentials"
    /\ last_result.res.ok
    /\ \E p, q \in Platforms :
          /\ DecryptedOf(config, p) = <<>>
          /\ IsSome(Stored(config, p))
          /\ DecryptedOf(config, q) # <<>>
          /\ Decryptable(config, q)

\* What decrypt_credentials recovers from the configuration as it is persisted.
Recovered(cfg) == decrypt_credentials(Persisted(cfg), crypto_manager).config

\* C10 (as claimed): after the first and after the second of two
\* encrypt_credentials calls made in a row, decrypt_credentials recovers from
\* the persisted configuration the plaintext of every platform that was
\* encrypted.
IdempotentEncryptAll ==
    (/\ last_result.op = "encrypt_credentials"
     /\ last_result.res.ok
     /\ enc_calls >= 1)
    => \A p \in Platforms :
          DecryptedOf(config, p) # <<>>
              => DecryptedOf(Recovered(config), p) = DecryptedOf(config, p)

\* C11: a decrypt_credentials call changes nothing but decrypted fields (the
\* enabled flags, the non-secret fields and the persisted secrets stay as they
\* were), and a second call right after it returns the same result and leaves
\* the configuration as the first call left it.
DecryptAllIdempotent ==
    [][CallDecryptCredentials =>
        /\ Persisted(config') = Persisted(config)
        /\ decrypt_credentials(config', crypto_manager) =
              [config |-> config', res |-> last_result'.res]]_vars

\* decrypt_credentials returned Ok and filled a field from its persisted secret
\* while another field, without a persisted secret, kept its value.
DecryptAllIdempotentWitness ==
    /\ last_result.op = "decrypt_credentials"
    /\ last_result.res.ok
    /\ \E p, q \in Platforms :
          /\ IsSome(Stored(config, p)) /\ DecryptedOf(config, p) = <<97>>
          /\ ~IsSome(Stored(config, q)) /\ DecryptedOf(config, q) = <<128640>>

----------------------------------------------------------------------------
(* SpecPublish: one run of the async block of PostSubmit.  The captured       *)
(* config has, for each platform, every requirement met or one of them        *)
(* missing; the text passed the guard of PostSubmit (not blank, at most       *)
(* MAX_POST_LENGTH characters).                                               *)

NostrKey == [i \in 1..64 |-> IF i = 64 THEN 49 ELSE 48]

BlueskyChoices ==
    {BlueskyConfig(TRUE, <<97>>, None, <<112>>), BlueskyConfig(FALSE, <<97>>, None, <<112>>),
     BlueskyConfig(TRUE, <<>>, None, <<112>>), BlueskyConfig(TRUE, <<97>>, None, <<>>)}

MastodonChoices ==
    {MastodonConfig(TRUE, <<104, 47>>, None, <<116>>),
     MastodonConfig(FALSE, <<104, 47>>, None, <<116>>),
     MastodonConfig(TRUE, <<>>, None, <<116>>), MastodonConfig(TRUE, <<104, 47>>, None, <<>>)}

MicroBlogChoices ==
    {MicroBlogConfig(TRUE, None, <<116>>), MicroBlogConfig(FALSE, None, <<116>>),
     MicroBlogConfig(TRUE, None, <<>>)}

NostrChoices ==
    {NostrConfig(TRUE, None, <<<<119>>>>, NostrKey), NostrConfig(FALSE, None, <<<<119>>>>, NostrKey),
     NostrConfig(TRUE, None, <<<<119>>>>, <<>>), NostrConfig(TRUE, None, <<>>, NostrKey),
     NostrConfig(TRUE, None, <<<<119>>>>, <<97>>)}

PostTexts == {<<97, 128640>>, [i \in 1..(BLUESKY_CHARACTER_LIMIT + 1) |-> 97]}

PostImages == {None, Some(ImageOk), Some(ImageBig), Some(ImageGone)}

Posts ==
    [config : [bluesky : BlueskyChoices, mastodon : MastodonChoices,
               nostr : NostrChoices, microblog : MicroBlogChoices],
     text : PostTexts,
     attached_image : PostImages,
     post_to : [Platforms -> BOOLEAN]]

PublishInit ==
    /\ post \in Posts
    /\ task = TaskNew
    /\ io_log = <<>>
    /\ app = "unused"
    /\ disk = "unused"
    /\ updates = 0
    /\ edits = 0
    /\ saves = 0
    /\ memory = "unused"
    /\ env = OtherEnv
    /\ crypto_manager = CryptoManagerNew
    /\ config = "unused"
    /\ enc_calls = 0
    /\ last_result = StoreResult("new", Ok("unit"))
    /\ secret = <<>>
    /\ encrypted = None
    /\ enc_origin = None

Running == ~IsSome(task.output) /\ ~IsSome(task.call) /\ task.pc < TaskDone

\* A platform that is not selected: the block goes on to the next `if`.
OrchestratorSkip ==
    /\ Running
    /\ ~ShouldCall(PostOrder[task.pc])
    /\ task' = [task EXCEPT !.pc = @ + 1]
    /\ UNCHANGED <<post, io_log>>

\* A selected platform: its adapter runs to its first request or to its return.
AdapterCall ==
    /\ Running
    /\ ShouldCall(PostOrder[task.pc])
    /\ \E s \in {adapter_begin(PostOrder[task.pc])} :
          /\ task' = TaskAfter(task, PostOrder[task.pc], s)
          /\ io_log' = io_log \o <<AdapterCalled(PostOrder[task.pc])>>
                              \o LogAfter(PostOrder[task.pc], s)
    /\ UNCHANGED post

\* The request the adapter awaits is answered.
AdapterResponse ==
    /\ ~IsSome(task.output)
    /\ IsSome(task.call)
    /\ \E response \in Responses :
          \E s \in {adapter_resume(Unwrap(task.call), response)} :
             /\ task' = TaskAfter(task, PostOrder[task.pc], s)
             /\ io_log' = io_log \o <<Responded(Unwrap(task.call), response)>>
                                 \o LogAfter(PostOrder[task.pc], s)
    /\ UNCHANGED post

\* The block returns; its output becomes Message::PostResult.
TaskReturn ==
    /\ ~IsSome(task.output)
    /\ task.pc = TaskDone
    /\ task' = [task EXCEPT !.output = Some(TaskOutput(task.errors))]
    /\ UNCHANGED <<post, io_log>>

PublishNext ==
    \/ OrchestratorSkip
    \/ AdapterCall
    \/ AdapterResponse
    \/ TaskReturn

cipher_store_vars == <<env, crypto_manager, secret, encrypted, enc_origin, last_result, config, enc_calls>>

SpecPublish == PublishInit /\ [][PublishNext /\ UNCHANGED cipher_store_vars /\ UNCHANGED app_vars /\ UNCHANGED memory]_vars

Called(p) == \E i \in 1..Len(io_log) : io_log[i].kind = "call" /\ io_log[i].platform = p

\* The platforms whose adapter returned an error.
Failed(p) ==
    \E i \in 1..Len(io_log) :
        io_log[i].kind = "return" /\ io_log[i].platform = p /\ ~io_log[i].body.ok

Succeeded(p) ==
    \E i \in 1..Len(io_log) :
        io_log[i].kind = "return" /\ io_log[i].platform = p /\ io_log[i].body.ok

IsFailed(p) == Failed(p)

FailedInOrder == SelectSeq(PostOrder, IsFailed)

\* The requirements of each adapter, as the specification lists them.
MeetsRequirements(p) ==
    CASE p = "bluesky" ->
            /\ post.config.bluesky.enabled
            /\ post.config.bluesky.handle # <<>>
            /\ post.config.bluesky.decrypted_password # <<>>
      [] p = "mastodon" ->
            /\ post.config.mastodon.enabled
            /\ post.config.mastodon.instance_url # <<>>
            /\ post.config.mastodon.decrypted_access_token # <<>>
      [] p = "microblog" ->
            /\ post.config.microblog.enabled
            /\ post.config.microblog.decrypted_access_token # <<>>
      [] p = "nostr" ->
            /\ post.config.nostr.enabled
            /\ post.config.nostr.decrypted_private_key # <<>>
            /\ post.config.nostr.relays # <<>>

\* C3: once the block has returned, the adapter of every selected platform has
\* been called, whatever the other adapters returned; and while it runs, every
\* selected platform before the current one has been called.
EveryAdapterAttempted ==
    \A p \in Platforms :
        (ShouldCall(p) /\ (IsSome(task.output) \/ task.pc > Position(p))) => Called(p)

\* The block has returned after a selected adapter failed and a selected
\* adapter after it was called all the same.
EveryAdapterAttemptedWitness ==
    /\ IsSome(task.output)
    /\ \E p, q \in Platforms :
          /\ Position(p) < Position(q)
          /\ Failed(p)
          /\ Called(q)

\* C4: the output of the block is Ok exactly when no adapter that was called
\* returned an error; otherwise it holds one entry for each platform whose
\* adapter failed, tagged with the platform's name and carrying its error, in
\* the order Bluesky, Mastodon, Micro.Blog, Nostr, and nothing else.
AggregatedResult ==
    IsSome(task.output) =>
        /\ Unwrap(task.output).ok <=> (\A p \in Platforms : ~Failed(p))
        /\ Len(Unwrap(task.output).entries) = Len(FailedInOrder)
        /\ \A i \in 1..Len(FailedInOrder) :
              /\ Unwrap(task.output).entries[i].tag = Tag(FailedInOrder[i])
              /\ AdapterReturned(FailedInOrder[i], [ok |-> FALSE,
                                 err |-> Unwrap(task.output).entries[i].error])
                    \in {io_log[j] : j \in 1..Len(io_log)}

\* Three platforms selected, the adapters of the first and the last of them
\* succeeded and the one in between failed: the output holds one entry.
AggregatedResultWitness ==
    /\ IsSome(task.output)
    /\ Cardinality({p \in Platforms : ShouldCall(p)}) = 3
    /\ \E p, q, r \in Platforms :
          /\ Position(p) < Position(q) /\ Position(q) < Position(r)
          /\ Succeeded(p) /\ Failed(q) /\ Succeeded(r)
    /\ Len(Unwrap(task.output).entries) = 1

\* C5: a platform that is not selected is never called, issues no network
\* request, reads no file, and has no entry in the errors of the block or in
\* its output, whatever its configuration.
UnselectedSkipped ==
    \A p \in Platforms :
        ~post.post_to[p] =>
            /\ \A i \in 1..Len(io_log) : io_log[i].platform # p
            /\ \A i \in 1..Len(task.errors) : task.errors[i].tag # Tag(p)
            /\ IsSome(task.output) =>
                  \A i \in 1..Len(Unwrap(task.output).entries) :
                      Unwrap(task.output).entries[i].tag # Tag(p)

\* The block has returned, a platform that meets its requirements was not
\* selected, and another platform was selected and called.
UnselectedSkippedWitness ==
    /\ IsSome(task.output)
    /\ \E p, q \in Platforms :
          /\ ~post.post_to[p] /\ MeetsRequirements(p)
          /\ post.post_to[q] /\ Called(q)

\* C6: an adapter called for a platform that is disabled or lacks a required
\* field or its decrypted secret has returned an Auth error, and has issued no
\* network request and read no file.
FailFastPrecondition ==
    \A p \in Platforms :
        (Called(p) /\ ~MeetsRequirements(p)) =>
            /\ \E i \in 1..Len(io_log) :
                  /\ io_log[i].kind = "return" /\ io_log[i].platform = p
                  /\ ~io_log[i].body.ok /\ io_log[i].body.err.kind = "Auth"
            /\ \A i \in 1..Len(io_log) :
                  io_log[i].platform = p => io_log[i].kind \in {"call", "return"}

\* With an image attached, the four adapters were called, each with another
\* requirement missing: Bluesky without its password, Mastodon without its
\* instance URL, Micro.Blog disabled, Nostr without relays.
FailFastPreconditionWitness ==
    /\ IsSome(task.output)
    /\ IsSome(post.attached_image)
    /\ \A p \in Platforms : Called(p)
    /\ post.config.bluesky.decrypted_password = <<>>
    /\ post.config.mastodon.instance_url = <<>>
    /\ ~post.config.microblog.enabled
    /\ post.config.nostr.relays = <<>>
    /\ Len(Unwrap(task.output).entries) = 4

\* C7 (as claimed): the adapters of all the selected platforms have been called
\* before the response to any request is awaited and taken, so that no adapter
\* waits for another platform's response before it starts.
JoinAllStarts ==
    [][AdapterResponse => \A q \in Platforms : ShouldCall(q) => Called(q)]_vars

\* The responses the adapter of platform p has taken.
ResponsesTo(p) ==
    {i \in 1..Len(io_log) : io_log[i].kind = "response" /\ io_log[i].platform = p}

\* The entry after the i-th is the return of p's adapter with an error of the
\* given kind.
ReturnsNext(i, p, kind) ==
    /\ i < Len(io_log)
    /\ io_log[i + 1].kind = "return"
    /\ io_log[i + 1].platform = p
    /\ ~io_log[i + 1].body.ok
    /\ io_log[i + 1].body.err.kind = kind

\* The responses whose status is a success (2xx).
SuccessStatus == {"ok_nojson", "ok_missing", "ok"}

BlueskyRequests(target) ==
    {i \in 1..Len(io_log) :
        io_log[i].kind = "net" /\ io_log[i].platform = "bluesky" /\ io_log[i].target = target}

\* Before the i-th entry, createSession was requested and answered with a
\* success that carries an access token, and the i-th entry bears that token.
AfterSessionWithToken(i) ==
    \E c \in BlueskyRequests("com.atproto.server.createSession") :
        \E s \in ResponsesTo("bluesky") :
            /\ c < s
            /\ s < i
            /\ io_log[s].target = "createSession"
            /\ io_log[s].body.status = "ok"
            /\ io_log[i].body.bearer # <<>>
            /\ io_log[i].body.bearer = AccessJwt(io_log[s].body.status)

\* C29: post_to_bluesky requests createSession, then uploadBlob (only with an
\* attached image), then createRecord, each at most once; uploadBlob and
\* createRecord are requested only after createSession came back with a
\* success and an access token, and bear that token; with an attached image
\* createRecord is requested only after uploadBlob.
BlueskyCallOrdering ==
    /\ \A i \in BlueskyRequests("com.atproto.repo.uploadBlob")
                \cup BlueskyRequests("com.atproto.repo.createRecord") :
          AfterSessionWithToken(i)
    /\ \A u \in BlueskyRequests("com.atproto.repo.uploadBlob") :
          /\ IsSome(post.attached_image)
          /\ \A r \in BlueskyRequests("com.atproto.repo.createRecord") : u < r
    /\ \A r \in BlueskyRequests("com.atproto.repo.createRecord") :
          IsSome(post.attached_image)
              => \E u \in BlueskyRequests("com.atproto.repo.uploadBlob") : u < r
    /\ \A target \in {"com.atproto.server.createSession", "com.atproto.repo.uploadBlob",
                       "com.atproto.repo.createRecord"} :
          Cardinality(BlueskyRequests(target)) <= 1

\* With an image attached, the three requests were sent.
BlueskyCallOrderingWitness ==
    /\ BlueskyRequests("com.atproto.repo.uploadBlob") # {}
    /\ BlueskyRequests("com.atproto.repo.createRecord") # {}
    /\ \E i \in ResponsesTo("bluesky") : io_log[i].target = "uploadBlob"

\* The adapters that attach an image.
ImagePlatforms == {"bluesky", "mastodon", "microblog"}

\* The request that creates the post on platform p.
PostCreation(p) ==
    CASE p = "bluesky" -> "com.atproto.repo.createRecord"
      [] p = "mastodon" -> "/api/v1/statuses"
      [] p = "microblog" -> "micropub"

\* The adapter of p has neither sent the request that creates the post nor
\* returned Ok.
NoPostCreated(p) ==
    \A i \in 1..Len(io_log) :
        io_log[i].platform = p
          => /\ ~(io_log[i].kind = "net" /\ io_log[i].target = PostCreation(p))
             /\ io_log[i].kind = "return" => ~io_log[i].body.ok

\* The adapter of p has returned, and never anything but an Api error.
ReturnedApi(p) ==
    \A i \in 1..Len(io_log) :
        (io_log[i].kind = "return" /\ io_log[i].platform = p)
          => ~io_log[i].body.ok /\ io_log[i].body.err.kind = "Api"

\* C17 (as claimed): with an attached image that cannot be read, the adapter
\* of every image platform returns an Api error whenever it is called, and
\* does not send the request that creates the post.
UnreadableImageIsApi ==
    post.attached_image = Some(ImageGone) =>
        \A p \in ImagePlatforms : NoPostCreated(p) /\ ReturnedApi(p)

\* The adapter of p gets as far as reading the image: the requirements of p
\* are met and, for Bluesky, the session was created with an access token.
ReadsImage(p) ==
    /\ MeetsRequirements(p)
    /\ p = "bluesky" =>
          \E i \in ResponsesTo(p) :
              io_log[i].target = "createSession" /\ io_log[i].body.status = "ok"

\* C17 as amended: with an attached image that cannot be read, the adapter of
\* every image platform returns an error and does not send the request that
\* creates the post; the error is an Api error, returned right after the
\* attempt to read the file, whenever the adapter gets as far as reading the
\* image, and only then is the file read.
UnreadableImageRejected ==
    post.attached_image = Some(ImageGone) =>
        \A p \in ImagePlatforms :
            /\ NoPostCreated(p)
            /\ ReadsImage(p) => ReturnedApi(p)
            /\ \A i \in 1..Len(io_log) :
                  (io_log[i].kind = "fs" /\ io_log[i].platform = p)
                    => ReadsImage(p) /\ ReturnsNext(i, p, "Api")

\* The three image adapters have each tried to read the missing file and
\* returned an Api error, Bluesky after its session was created.
UnreadableImageRejectedWitness ==
    /\ post.attached_image = Some(ImageGone)
    /\ \A p \in ImagePlatforms :
          /\ ReadsImage(p)
          /\ \E i \in 1..Len(io_log) :
                /\ io_log[i].kind = "fs"
                /\ io_log[i].platform = p
                /\ ReturnsNext(i, p, "Api")

\* C18: with the requirements of Nostr met, a private key that is not a valid
\* hexadecimal secret key makes post_to_nostr return a Crypto error without a
\* relay connected or an event sent; and a send_event that fails makes it
\* return an Api error.
NostrFailureMapping ==
    /\ (MeetsRequirements("nostr") /\ ~from_hex(post.config.nostr.decrypted_private_key))
          => \A i \in 1..Len(io_log) :
                io_log[i].platform = "nostr"
                  => /\ io_log[i].kind \in {"call", "return"}
                     /\ io_log[i].kind = "return"
                           => ~io_log[i].body.ok /\ io_log[i].body.err.kind = "Crypto"
    /\ \A i \in ResponsesTo("nostr") :
          (io_log[i].target = "send_event" /\ io_log[i].body.status \in {"error", "fail"})
            => ReturnsNext(i, "nostr", "Api")

\* post_to_nostr has returned a Crypto error for a key that is not hexadecimal.
NostrFailureMappingWitness ==
    /\ MeetsRequirements("nostr")
    /\ ~from_hex(post.config.nostr.decrypted_private_key)
    /\ \E i \in 1..Len(io_log) :
          /\ io_log[i].kind = "return"
          /\ io_log[i].platform = "nostr"
          /\ ~io_log[i].body.ok
          /\ io_log[i].body.err.kind = "Crypto"

\* What post_to_nostr returns, told from the credentials and from the answer
\* to send_event alone: the kind of the error, or "Ok".  `i` is the place of
\* the return in io_log.
NostrOutcome(i) ==
    IF ~MeetsRequirements("nostr") THEN "Auth"
    ELSE IF ~from_hex(post.config.nostr.decrypted_private_key) THEN "Crypto"
    ELSE IF (i - 1) \in ResponsesTo("nostr") /\ io_log[i - 1].body.status \in {"error", "fail"}
         THEN "Api"
    ELSE "Ok"

\* C19: whatever the attached image is (none, readable, too large, missing),
\* the Nostr adapter never reads a file, the event it sends holds the given
\* text and goes to the configured relays, and what it returns is told by the
\* credentials and the answer to send_event alone.
NostrIgnoresImage ==
    \A i \in 1..Len(io_log) :
        io_log[i].platform = "nostr" =>
            /\ io_log[i].kind # "fs"
            /\ (io_log[i].kind = "net" /\ io_log[i].target = "send_event")
                  => io_log[i].body = [relays |-> post.config.nostr.relays, text |-> post.text]
            /\ io_log[i].kind = "return"
                  => (IF io_log[i].body.ok THEN "Ok" ELSE io_log[i].body.err.kind)
                        = NostrOutcome(i)

\* The Nostr adapter has sent the event and returned Ok on a post whose
\* attached image cannot be read.
NostrIgnoresImageWitness ==
    /\ post.attached_image = Some(ImageGone)
    /\ Succeeded("nostr")
    /\ \E i \in 1..Len(io_log) :
          /\ io_log[i].platform = "nostr"
          /\ io_log[i].kind = "net"
          /\ io_log[i].target = "send_event"

----------------------------------------------------------------------------
(* SpecAdapters: the adapters are public functions that take any &str; here   *)
(* they run, in the order of the async block, on every kind of text: empty,   *)
(* white space only, short, of BLUESKY_CHARACTER_LIMIT scalar values and      *)
(* longer.  Mastodon, Nostr and Micro.Blog are configured; Bluesky has every  *)
(* requirement met or one of them missing.                                    *)

\* "a".repeat(400) and the emoji repeated 400 times of the tests
LONG_TEXT_LEN == 400

Repeat(c, n) == [i \in 1..n |-> c]

AdapterTexts ==
    {<<>>, <<32, 10>>, <<97, 128640>>,
     Repeat(128640, BLUESKY_CHARACTER_LIMIT),
     Repeat(97, BLUESKY_CHARACTER_LIMIT - 1) \o <<128640, 128640>>,
     Repeat(97, LONG_TEXT_LEN),
     Repeat(128640, LONG_TEXT_LEN)}

AdapterPosts ==
    [config : [bluesky : BlueskyChoices,
               mastodon : {MastodonConfig(TRUE, <<104, 47>>, None, <<116>>)},
               nostr : {NostrConfig(TRUE, None, <<<<119>>>>, NostrKey)},
               microblog : {MicroBlogConfig(TRUE, None, <<116>>)}],
     text : AdapterTexts,
     attached_image : PostImages,
     post_to : [Platforms -> BOOLEAN]]

AdaptersInit ==
    /\ post \in AdapterPosts
    /\ task = TaskNew
    /\ io_log = <<>>
    /\ app = "unused"
    /\ disk = "unused"
    /\ updates = 0
    /\ edits = 0
    /\ saves = 0
    /\ memory = "unused"
    /\ env = OtherEnv
    /\ crypto_manager = CryptoManagerNew
    /\ config = "unused"
    /\ enc_calls = 0
    /\ last_result = StoreResult("new", Ok("unit"))
    /\ secret = <<>>
    /\ encrypted = None
    /\ enc_origin = None

SpecAdapters ==
    AdaptersInit /\ [][PublishNext /\ UNCHANGED cipher_store_vars /\ UNCHANGED app_vars /\ UNCHANGED memory]_vars

\* The requests to create a Bluesky record that have been sent.
CreateRecordSent ==
    {i \in 1..Len(io_log) :
        /\ io_log[i].kind = "net"
        /\ io_log[i].target = "com.atproto.repo.createRecord"}

\* The text the Bluesky adapter works on: a single space when the given text
\* is empty or white space and an image is attached, the given text otherwise.
SubstitutedText ==
    IF TrimIsEmpty(post.text) /\ IsSome(post.attached_image) THEN <<32>> ELSE post.text

\* C15: the text of every createRecord request is the first min(n, 300) scalar
\* values of the (possibly substituted) text of n scalar values: a text of at
\* most BLUESKY_CHARACTER_LIMIT scalar values is sent as it is, a longer one is
\* cut to exactly BLUESKY_CHARACTER_LIMIT whole scalar values.
BlueskyTruncation ==
    \A i \in CreateRecordSent :
        /\ Len(io_log[i].body.text) =
              IF Len(SubstitutedText) < BLUESKY_CHARACTER_LIMIT
              THEN Len(SubstitutedText) ELSE BLUESKY_CHARACTER_LIMIT
        /\ \A k \in 1..Len(io_log[i].body.text) :
              io_log[i].body.text[k] = SubstitutedText[k]

\* A createRecord request has been sent for a text of LONG_TEXT_LEN emoji.
BlueskyTruncationWitness ==
    /\ CreateRecordSent # {}
    /\ post.text = Repeat(128640, LONG_TEXT_LEN)
    /\ \A i \in CreateRecordSent : Len(io_log[i].body.text) = BLUESKY_CHARACTER_LIMIT

\* C20: the text of every createRecord request is a single space when the
\* given text is empty and an image is attached; when no image is attached it
\* is the given text (cut to BLUESKY_CHARACTER_LIMIT scalar values), an empty
\* text included.
BlueskyEmptyTextFallback ==
    \A i \in CreateRecordSent :
        /\ (post.text = <<>> /\ IsSome(post.attached_image))
              => io_log[i].body.text = <<32>>
        /\ ~IsSome(post.attached_image)
              => /\ Len(post.text) <= BLUESKY_CHARACTER_LIMIT
                       => io_log[i].body.text = post.text
                 /\ Len(post.text) > BLUESKY_CHARACTER_LIMIT
                       => io_log[i].body.text = SubSeq(post.text, 1, BLUESKY_CHARACTER_LIMIT)

\* A record has been created with a single space for an empty text and a
\* readable image.
BlueskyEmptyTextFallbackWitness ==
    /\ post.text = <<>>
    /\ post.attached_image = Some(ImageOk)
    /\ \E i \in CreateRecordSent : io_log[i].body.text = <<32>> /\ io_log[i].body.embed
    /\ Succeeded("bluesky")

----------------------------------------------------------------------------
(* app.rs: AppModel::init and the handlers of AppModel::update for            *)
(* UpdateConfig, SaveSettings, the settings fields and the post_to toggles.   *)
(* `config` is AppModel.config and `crypto_manager` AppModel.crypto_manager.  *)

WssPrefix == <<119, 115, 115, 58, 47, 47>>

\* NostrConfig::default: relay.damus.io, nos.lol, relay.snort.social, nostr.wine
DefaultRelays ==
    <<WssPrefix \o <<114, 101, 108, 97, 121, 46, 100, 97, 109, 117, 115, 46, 105, 111>>,
      WssPrefix \o <<110, 111, 115, 46, 108, 111, 108>>,
      WssPrefix \o <<114, 101, 108, 97, 121, 46, 115, 110, 111, 114, 116, 46,
                     115, 111, 99, 105, 97, 108>>,
      WssPrefix \o <<110, 111, 115, 116, 114, 46, 119, 105, 110, 101>>>>

\* Config::default
ConfigDefault ==
    [bluesky   |-> BlueskyConfig(FALSE, <<>>, None, <<>>),
     mastodon  |-> MastodonConfig(FALSE, <<>>, None, <<>>),
     nostr     |-> NostrConfig(FALSE, None, DefaultRelays, <<>>),
     microblog |-> MicroBlogConfig(FALSE, None, <<>>)]

PostingStatus(status, msg) == [status |-> status, msg |-> [literal |-> msg]]

\* PostingStatus::Error(e.to_string()) of a PostError with the given joined
\* entries
PostingError(kind, entries) ==
    [status |-> "Error", msg |-> [kind |-> kind, joined |-> entries]]

EnabledFlags(cfg) ==
    [p \in Platforms |->
        CASE p = "bluesky" -> cfg.bluesky.enabled [] p = "mastodon" -> cfg.mastodon.enabled
          [] p = "microblog" -> cfg.microblog.enabled [] p = "nostr" -> cfg.nostr.enabled]

\* AppModel::init: the key is derived (an error is only logged), the entry is
\* loaded, its credentials are decrypted (an error is only logged), and the
\* temp_* records and the toggles are taken from the result.
AppModelOf(cfg) ==
    [temp_bluesky |-> cfg.bluesky, temp_mastodon |-> cfg.mastodon,
     temp_nostr |-> cfg.nostr, temp_microblog |-> cfg.microblog,
     new_relay |-> <<>>,
     post_editor_content |-> <<>>,
     attached_image |-> None,
     post_to |-> EnabledFlags(cfg),
     posting_status |-> PostingStatus("Idle", "none")]

init(e, entry, hash_ok) ==
    CHOOSE r \in
        {[crypto_manager |-> cm, config |-> cfg, app |-> AppModelOf(cfg)] :
            cm \in {init_with_machine_key(CryptoManagerNew, e, hash_ok).cm},
            cfg \in {decrypt_credentials(entry,
                         init_with_machine_key(CryptoManagerNew, e, hash_ok).cm).config}} : TRUE

\* self.config.bluesky = self.temp_bluesky.clone(); and the three like it
TempConfig(a) ==
    [bluesky |-> a.temp_bluesky, mastodon |-> a.temp_mastodon,
     nostr |-> a.temp_nostr, microblog |-> a.temp_microblog]


----------------------------------------------------------------------------
(* Spec: the application from AppModel::init on.  The entry on disk at        *)
(* startup is the default one, or one saved earlier on this machine, or one   *)
(* whose Mastodon token was saved under another machine key.  MaxEdits and    *)
(* MaxSaves bound the number of messages handled.                             *)

MaxEdits == 2

MaxSaves == 2

OwnSecret(plain) ==
    Some(OkVal(encrypt(init_with_machine_key(CryptoManagerNew, StoreEnv, TRUE).cm,
                       plain, Nonce(0), <<"generated", 0>>)))

ForeignSecret(plain) ==
    Some(OkVal(encrypt(init_with_machine_key(CryptoManagerNew, OtherEnv, TRUE).cm,
                       plain, Nonce(0), <<"generated", 0>>)))

Entries ==
    {ConfigDefault,
     [ConfigDefault EXCEPT !.bluesky = BlueskyConfig(TRUE, <<97, 46, 98>>, OwnSecret(<<111>>), <<>>),
                           !.nostr.private_key = OwnSecret(<<110>>)],
     [ConfigDefault EXCEPT !.mastodon = MastodonConfig(TRUE, <<104>>, ForeignSecret(<<111>>), <<>>),
                           !.nostr.private_key = OwnSecret(<<110>>)]}

Init ==
    /\ env = StoreEnv
    /\ disk \in Entries
    /\ \E hash_ok \in BOOLEAN :
          \E r \in {init(env, disk, hash_ok)} :
             /\ crypto_manager = r.crypto_manager
             /\ config = r.config
             /\ app = r.app
    /\ updates = 0
    /\ edits = 0
    /\ saves = 0
    /\ memory = "unused"
    /\ last_result = StoreResult("init", Ok("unit"))
    /\ enc_calls = 0
    /\ secret = <<>>
    /\ encrypted = None
    /\ enc_origin = None
    /\ post = "unused"
    /\ task = "unused"
    /\ io_log = <<>>

\* What no handler of update() touches.
Handled(message) ==
    /\ UNCHANGED <<env, crypto_manager, secret, encrypted, enc_origin, enc_calls, last_result>>
    /\ UNCHANGED publish_vars

\* Message::UpdateConfig(config): watch_config reads the entry when it reports
\* a write; the entry is decrypted (an error is only logged) and replaces
\* self.config.
UpdateConfig ==
    /\ updates > 0
    /\ \E r \in {decrypt_credentials(disk, crypto_manager)} : config' = r.config
    /\ updates' = updates - 1
    /\ Handled("UpdateConfig")
    /\ UNCHANGED <<app, disk, edits, saves>>

\* Message::SaveSettings.  write_ok is whether cosmic_config could open and
\* write the entry; a written entry comes back as an UpdateConfig message.
\* The nonces that OsRng gives to the fields of one call are taken to start
\* with the same byte (the fields hold different ciphertexts all the same),
\* the lowest or the highest of Nonces.
AppDraws == {d \in StoreDraws : d.nonce \in {Nonce(0), Nonce(MaxNonce)}}

\* SaveSettings that sets the toggles before it encrypts.
SaveSettingsTogglesFirst ==
    /\ saves < MaxSaves
    /\ saves' = saves + 1
    /\ \E draw \in AppDraws :
          \E e \in {encrypt_credentials(TempConfig(app), crypto_manager,
                                        [p \in Platforms |-> draw])} :
             IF ~e.res.ok
             THEN /\ config' = e.config
                  /\ app' = [app EXCEPT
                               !.post_to = EnabledFlags(e.config),
                               !.posting_status =
                                   PostingStatus("Error", "Failed to save settings")]
                  /\ UNCHANGED <<disk, updates>>
             ELSE \E d \in {decrypt_credentials(e.config, crypto_manager)} :
                    \E write_ok \in BOOLEAN :
                       /\ config' = d.config
                       /\ app' = [app EXCEPT
                                    !.post_to = EnabledFlags(e.config),
                                    !.posting_status =
                                        IF write_ok THEN PostingStatus("Success", "none")
                                        ELSE PostingStatus("Error", "Failed to save settings")]
                       /\ disk' = IF write_ok THEN Persisted(e.config) ELSE disk
                       /\ updates' = IF write_ok THEN updates + 1 ELSE updates
    /\ Handled("SaveSettings")
    /\ UNCHANGED edits

SaveSettings ==
    /\ saves < MaxSaves
    /\ saves' = saves + 1
    /\ \E draw \in AppDraws :
          \E e \in {encrypt_credentials(TempConfig(app), crypto_manager,
                                        [p \in Platforms |-> draw])} :
             IF ~e.res.ok
             THEN /\ config' = e.config
                  /\ app' = [app EXCEPT !.posting_status =
                                            PostingStatus("Error", "Failed to save settings")]
                  /\ UNCHANGED <<disk, updates>>
             ELSE \E d \in {decrypt_credentials(e.config, crypto_manager)} :
                    \E write_ok \in BOOLEAN :
                       /\ config' = d.config
                       /\ app' = [app EXCEPT
                                    !.post_to = EnabledFlags(e.config),
                                    !.posting_status =
                                        IF write_ok THEN PostingStatus("Success", "none")
                                        ELSE PostingStatus("Error", "Failed to save settings")]
                       /\ disk' = IF write_ok THEN Persisted(e.config) ELSE disk
                       /\ updates' = IF write_ok THEN updates + 1 ELSE updates
    /\ Handled("SaveSettings")
    /\ UNCHANGED edits

\* What the settings form can be given.
Handles == {<<>>, <<97, 46, 98>>}

InstanceUrls == {<<>>, <<104>>}

Secrets == {<<>>, <<112>>}

\* A message of the settings form or of a toggle that changes its field.
Edit(message, a) ==
    /\ edits < MaxEdits
    /\ a # app
    /\ edits' = edits + 1
    /\ app' = a
    /\ Handled(message)
    /\ UNCHANGED <<config, disk, updates, saves>>

PostToBlueskyToggled ==
    \E enabled \in BOOLEAN :
        Edit("PostToBlueskyToggled", [app EXCEPT !.post_to["bluesky"] = enabled])

PostToMastodonToggled ==
    \E enabled \in BOOLEAN :
        Edit("PostToMastodonToggled", [app EXCEPT !.post_to["mastodon"] = enabled])

PostToMicroBlogToggled ==
    \E enabled \in BOOLEAN :
        Edit("PostToMicroBlogToggled", [app EXCEPT !.post_to["microblog"] = enabled])

PostToNostrToggled ==
    \E enabled \in BOOLEAN :
        Edit("PostToNostrToggled", [app EXCEPT !.post_to["nostr"] = enabled])

BlueskyEnabledChanged ==
    \E enabled \in BOOLEAN :
        Edit("BlueskyEnabledChanged", [app EXCEPT !.temp_bluesky.enabled = enabled])

BlueskyHandleChanged ==
    \E handle \in Handles :
        Edit("BlueskyHandleChanged", [app EXCEPT !.temp_bluesky.handle = handle])

BlueskyPasswordChanged ==
    \E password \in Secrets :
        Edit("BlueskyPasswordChanged",
             [app EXCEPT !.temp_bluesky.decrypted_password = password])

MastodonEnabledChanged ==
    \E enabled \in BOOLEAN :
        Edit("MastodonEnabledChanged", [app EXCEPT !.temp_mastodon.enabled = enabled])

MastodonInstanceChanged ==
    \E instance \in InstanceUrls :
        Edit("MastodonInstanceChanged", [app EXCEPT !.temp_mastodon.instance_url = instance])

MastodonTokenChanged ==
    \E token \in Secrets :
        Edit("MastodonTokenChanged",
             [app EXCEPT !.temp_mastodon.decrypted_access_token = token])

MicroBlogEnabledChanged ==
    \E enabled \in BOOLEAN :
        Edit("MicroBlogEnabledChanged", [app EXCEPT !.temp_microblog.enabled = enabled])

MicroBlogTokenChanged ==
    \E token \in Secrets :
        Edit("MicroBlogTokenChanged",
             [app EXCEPT !.temp_microblog.decrypted_access_token = token])

NostrEnabledChanged ==
    \E enabled \in BOOLEAN :
        Edit("NostrEnabledChanged", [app EXCEPT !.temp_nostr.enabled = enabled])

NostrPrivateKeyChanged ==
    \E key \in Secrets :
        Edit("NostrPrivateKeyChanged", [app EXCEPT !.temp_nostr.decrypted_private_key = key])

Next ==
    \/ UpdateConfig
    \/ SaveSettings
    \/ PostToBlueskyToggled
    \/ PostToMastodonToggled
    \/ PostToMicroBlogToggled
    \/ PostToNostrToggled
    \/ BlueskyEnabledChanged
    \/ BlueskyHandleChanged
    \/ BlueskyPasswordChanged
    \/ MastodonEnabledChanged
    \/ MastodonInstanceChanged
    \/ MastodonTokenChanged
    \/ MicroBlogEnabledChanged
    \/ MicroBlogTokenChanged
    \/ NostrEnabledChanged
    \/ NostrPrivateKeyChanged

Spec == Init /\ [][Next /\ UNCHANGED memory]_vars

\* C8 (as claimed): after init and after every handled message, each platform
\* of AppModel.config whose decrypted secret is not empty has a persisted
\* secret that decrypts, under the master key of the application, to that
\* decrypted secret.
LiveConfigConsistent ==
    \A p \in Platforms :
        DecryptedOf(config, p) # <<>>
            => /\ Decryptable(config, p)
               /\ PlainOf(config, p) = DecryptedOf(config, p)

\* The same for the applications that hold a master key.
LiveConfigConsistentWithKey == IsSome(crypto_manager.master_key) => LiveConfigConsistent


\* C23: the entry on disk never holds a decrypted secret: in every record that
\* SaveSettings wrote (and in the entry found at startup) the decrypted
\* password, tokens and private key are empty, whatever was typed and saved.
NoPlaintextPersisted == \A p \in Platforms : DecryptedOf(disk, p) = <<>>

\* A secret typed into the form was saved and written: the live configuration
\* holds it decrypted and the entry on disk holds its EncryptedData.
NoPlaintextPersistedWitness ==
    /\ saves > 0
    /\ updates > 0
    /\ \E p \in Platforms :
          /\ DecryptedOf(config, p) = <<112>>
          /\ IsSome(Stored(disk, p))
          /\ Stored(disk, p) = Stored(config, p)

\* C26: a SaveSettings handled while the form's secret field of a platform is
\* empty keeps, in the live configuration and in the entry on disk, the
\* persisted secret that the entry on disk held before the save (the one of the
\* latest successful save, or of startup): never an older one, never none.
EmptyFieldKeepsPersisted ==
    [][saves' # saves
          => \A p \in Platforms :
                DecryptedOf(TempConfig(app), p) = <<>>
                    => /\ Stored(config', p) = Stored(disk, p)
                       /\ Stored(disk', p) = Stored(disk, p)]_vars

----------------------------------------------------------------------------
(* SpecCompose: the compose view.  The text is edited, an image is attached,  *)
(* PostSubmit hands the async block to Task::perform and the runtime polls    *)
(* it: `post`, `task` and `io_log` are here sequences with one element per    *)
(* accepted PostSubmit: the values the block captured, where the block is,    *)
(* and what its adapters have called, sent and got.  The messages of the      *)
(* settings form, of the toggles, SaveSettings and UpdateConfig are handled   *)
(* in between.                                                                *)

MAX_POST_LENGTH == 500

MaxPosts == 2

\* What the text editor can be made to hold: nothing, a short text and a text
\* of MAX_POST_LENGTH + 1 characters.
ComposeTexts == {<<>>, <<97>>, [i \in 1..(MAX_POST_LENGTH + 1) |-> 97]}

ComposeImages == {None, Some(ImageOk)}

\* What a request of a polled task comes back with.
ComposeResponses == {"fail", "ok"}

ComposeEntry ==
    [ConfigDefault EXCEPT !.bluesky = BlueskyConfig(TRUE, <<97, 46, 98>>, OwnSecret(<<111>>), <<>>)]

ComposeInit ==
    /\ env = StoreEnv
    /\ disk = ComposeEntry
    /\ \E r \in {init(env, disk, TRUE)} :
          /\ crypto_manager = r.crypto_manager
          /\ config = r.config
          /\ app = r.app
    /\ updates = 0
    /\ edits = 0
    /\ saves = 0
    /\ memory = "unused"
    /\ last_result = StoreResult("init", Ok("unit"))
    /\ enc_calls = 0
    /\ secret = <<>>
    /\ encrypted = None
    /\ enc_origin = None
    /\ post = <<>>
    /\ task = <<>>
    /\ io_log = <<>>

\* Message::PostEditorAction(action): the action is performed on the content,
\* which then holds one of the given texts.
EditorAction(texts) ==
    \E text \in texts :
        Edit("PostEditorAction", [app EXCEPT !.post_editor_content = text])

PostEditorAction == EditorAction(ComposeTexts)

\* Message::ImageSelected(path)
ImageSelected ==
    \E path \in ComposeImages :
        Edit("ImageSelected", [app EXCEPT !.attached_image = path])

\* What the async block of PostSubmit is given: the text, a clone of
\* self.config, the four toggles and a clone of attached_image.
Captured ==
    [config |-> config, text |-> app.post_editor_content,
     attached_image |-> app.attached_image, post_to |-> app.post_to]

\* A PostSubmit whose guard measures the text in bytes and lets white space
\* through.
PostSubmitCountingBytes ==
    /\ Len(post) < MaxPosts
    /\ IF \/ app.post_editor_content = <<>>
          \/ PrefixBytes(app.post_editor_content, Len(app.post_editor_content)) > MAX_POST_LENGTH
       THEN UNCHANGED <<app, post, task, io_log>>
       ELSE /\ app' = [app EXCEPT !.posting_status = PostingStatus("Posting", "none")]
            /\ post' = Append(post, Captured)
            /\ task' = Append(task, TaskNew)
            /\ io_log' = Append(io_log, <<>>)
    /\ UNCHANGED <<env, crypto_manager, secret, encrypted, enc_origin, enc_calls, last_result>>
    /\ UNCHANGED <<config, disk, updates, edits, saves>>

\* Message::PostSubmit
PostSubmit ==
    /\ Len(post) < MaxPosts
    /\ IF TrimIsEmpty(app.post_editor_content) \/ Len(app.post_editor_content) > MAX_POST_LENGTH
       THEN UNCHANGED <<app, post, task, io_log>>
       ELSE /\ app' = [app EXCEPT !.posting_status = PostingStatus("Posting", "none")]
            /\ post' = Append(post, Captured)
            /\ task' = Append(task, TaskNew)
            /\ io_log' = Append(io_log, <<>>)
    /\ UNCHANGED <<env, crypto_manager, secret, encrypted, enc_origin, enc_calls, last_result>>
    /\ UNCHANGED <<config, disk, updates, edits, saves>>

\* One poll of the block: from the point t, where no request is awaited, to
\* the next request it awaits or to its return.
RECURSIVE RunBlock(_, _, _)
RunBlock(captured, t, log) ==
    IF t.pc = TaskDone
    THEN [task |-> [t EXCEPT !.output = Some(TaskOutput(t.errors))], log |-> log]
    ELSE IF ~Selected(captured, PostOrder[t.pc])
         THEN RunBlock(captured, [t EXCEPT !.pc = @ + 1], log)
    ELSE CHOOSE r \in
            {IF s.done
             THEN RunBlock(captured, AfterAdapter(t, PostOrder[t.pc], s.res),
                           log \o <<AdapterCalled(PostOrder[t.pc])>>
                               \o LogAfter(PostOrder[t.pc], s))
             ELSE [task |-> [t EXCEPT !.call = s.call],
                   log  |-> log \o <<AdapterCalled(PostOrder[t.pc])>>
                                \o LogAfter(PostOrder[t.pc], s)] :
                s \in {begin_adapter(captured, PostOrder[t.pc])}} : TRUE

\* The block after the answer to the request it awaits.
ResumeBlock(captured, t, log, response) ==
    CHOOSE r \in
        {IF s.done
         THEN RunBlock(captured, AfterAdapter(t, PostOrder[t.pc], s.res),
                       log \o <<Responded(Unwrap(t.call), response)>>
                           \o LogAfter(PostOrder[t.pc], s))
         ELSE [task |-> [t EXCEPT !.call = s.call],
               log  |-> log \o <<Responded(Unwrap(t.call), response)>>
                            \o LogAfter(PostOrder[t.pc], s)] :
            s \in {resume_adapter(captured, Unwrap(t.call), response)}} : TRUE

\* What only the handlers touch.
Polled ==
    /\ UNCHANGED <<env, crypto_manager, secret, encrypted, enc_origin, enc_calls, last_result>>
    /\ UNCHANGED <<config, app, disk, updates, edits, saves, post>>

\* The runtime polls a block for the first time.
TaskStart ==
    \E j \in DOMAIN task :
        /\ task[j] = TaskNew
        /\ \E r \in {RunBlock(post[j], task[j], io_log[j])} :
              /\ task' = [task EXCEPT ![j] = r.task]
              /\ io_log' = [io_log EXCEPT ![j] = r.log]
        /\ Polled

\* The request a block awaits is answered and the runtime polls the block.
TaskResponse ==
    \E j \in DOMAIN task :
        /\ IsSome(task[j].call)
        /\ \E response \in ComposeResponses :
              \E r \in {ResumeBlock(post[j], task[j], io_log[j], response)} :
                 /\ task' = [task EXCEPT ![j] = r.task]
                 /\ io_log' = [io_log EXCEPT ![j] = r.log]
        /\ Polled

\* A task whose output was delivered: the block and what it owned are dropped.
TaskDropped == [TaskNew EXCEPT !.pc = TaskDone + 1]

CapturedDropped ==
    [config |-> ConfigDefault, text |-> <<>>, attached_image |-> None,
     post_to |-> [p \in Platforms |-> FALSE]]

\* A PostResult that leaves posting_status as it is.
PostResultSilent ==
    \E j \in DOMAIN task :
        /\ IsSome(task[j].output)
        /\ app' = IF Unwrap(task[j].output).ok
                  THEN [app EXCEPT !.post_editor_content = <<>>]
                  ELSE app
        /\ task' = [task EXCEPT ![j] = TaskDropped]
        /\ post' = [post EXCEPT ![j] = CapturedDropped]
        /\ io_log' = [io_log EXCEPT ![j] = <<>>]
        /\ UNCHANGED <<env, crypto_manager, secret, encrypted, enc_origin, enc_calls, last_result>>
        /\ UNCHANGED <<config, disk, updates, edits, saves>>

\* Message::PostResult(result), result being the output of a block
PostResult ==
    \E j \in DOMAIN task :
        /\ IsSome(task[j].output)
        /\ app' = IF Unwrap(task[j].output).ok
                  THEN [app EXCEPT !.posting_status = PostingStatus("Success", "none"),
                                   !.post_editor_content = <<>>]
                  ELSE [app EXCEPT !.posting_status =
                                       PostingError(Unwrap(task[j].output).kind,
                                                    Unwrap(task[j].output).entries)]
        /\ task' = [task EXCEPT ![j] = TaskDropped]
        /\ post' = [post EXCEPT ![j] = CapturedDropped]
        /\ io_log' = [io_log EXCEPT ![j] = <<>>]
        /\ UNCHANGED <<env, crypto_manager, secret, encrypted, enc_origin, enc_calls, last_result>>
        /\ UNCHANGED <<config, disk, updates, edits, saves>>

ComposeNext ==
    \/ PostEditorAction
    \/ ImageSelected
    \/ PostSubmit
    \/ TaskStart
    \/ TaskResponse
    \/ PostResult
    \/ PostToBlueskyToggled
    \/ PostToMastodonToggled

SpecCompose == ComposeInit /\ [][ComposeNext /\ UNCHANGED memory]_vars

\* SpecInFlight: the same with the settings saved and reloaded in between.
InFlightNext ==
    \/ ComposeNext
    \/ BlueskyPasswordChanged
    \/ SaveSettings
    \/ UpdateConfig

SpecInFlight == ComposeInit /\ [][InFlightNext /\ UNCHANGED memory]_vars

\* SpecComposeFair: the runtime polls every task it was handed, every request
\* of an adapter is answered, and every output is delivered as a message.
SpecComposeFair ==
    /\ SpecCompose
    /\ WF_vars(TaskStart /\ UNCHANGED memory)
    /\ WF_vars(TaskResponse /\ UNCHANGED memory)
    /\ WF_vars(PostResult /\ UNCHANGED memory)

\* The tasks whose PostResult has not been handled.
InFlight == {j \in DOMAIN task : task[j] # TaskDropped}

\* C27: no message handled while posting_status is Posting creates a publish
\* task, so that at most one is in flight and no adapter is called for a
\* second PostSubmit before the PostResult of the first.
OnePublishAtATime ==
    [][app.posting_status.status = "Posting"
          => /\ Len(task') = Len(task)
             /\ Cardinality(InFlight) <= 1]_vars

\* The entries of the log of task j of the given kind.
Logged(j, kind) == {i \in 1..Len(io_log[j]) : io_log[j][i].kind = kind}

\* What task j has called, read and sent comes from what it captured: the
\* adapters called are those of the captured toggles, in order; the session
\* is requested with the captured handle and password, the record carries
\* the captured text, and the file read is the captured image.
SentFromCaptured(j) ==
    /\ \A i \in Logged(j, "call") : post[j].post_to[io_log[j][i].platform]
    /\ \A k \in 1..(task[j].pc - 1) :
          post[j].post_to[PostOrder[k]]
              => \E i \in Logged(j, "call") : io_log[j][i].platform = PostOrder[k]
    /\ \A i \in Logged(j, "fs") : Some(io_log[j][i].body.path) = post[j].attached_image
    /\ \A i \in Logged(j, "net") :
          /\ io_log[j][i].target = "com.atproto.server.createSession"
                => /\ io_log[j][i].body.identifier = post[j].config.bluesky.handle
                   /\ io_log[j][i].body.password = post[j].config.bluesky.decrypted_password
          /\ io_log[j][i].target = "com.atproto.repo.createRecord"
                => /\ io_log[j][i].body.repo = post[j].config.bluesky.handle
                   /\ io_log[j][i].body.text = Take(post[j].text, BLUESKY_CHARACTER_LIMIT)

\* C28: a publish works on the values of the moment PostSubmit was handled:
\* the block is created with the text, image path, toggles and configuration
\* of that moment, no message handled while it is in flight changes them, and
\* everything its adapters call, read and send comes from them.
SnapshotKept ==
    /\ [][/\ Len(post') > Len(post) => post'[Len(post')] = Captured
          /\ \A j \in DOMAIN post : task'[j] # TaskDropped => post'[j] = post[j]]_vars
    /\ [](\A j \in InFlight : SentFromCaptured(j))

\* A publish sent its record after the password was changed and saved, and
\* the toggles or the text were changed, while it was in flight.
SnapshotKeptWitness ==
    \E j \in InFlight :
        /\ post[j].config.bluesky.decrypted_password # config.bluesky.decrypted_password
        /\ post[j].config.bluesky.password # config.bluesky.password
        /\ \E i \in Logged(j, "net") : io_log[j][i].target = "com.atproto.repo.createRecord"

\* C30: an accepted PostSubmit sets posting_status to Posting and creates one
\* task; with every request answered the task's output is delivered, once, as
\* a PostResult, which sets Success and clears the editor when the output is
\* Ok and sets Error with the joined errors and keeps the text otherwise; and
\* posting_status does not stay Posting: again and again every task created
\* so far has had its PostResult, and posting_status is not Posting then.
PostLeadsToResult ==
    /\ [][/\ Len(task') > Len(task)
                => /\ app'.posting_status.status = "Posting"
                   /\ Len(task') = Len(task) + 1
          /\ \A j \in DOMAIN task :
                /\ task[j] = TaskDropped => task'[j] = TaskDropped
                /\ (task[j] # TaskDropped /\ task'[j] = TaskDropped)
                      => /\ IsSome(task[j].output)
                         /\ IF Unwrap(task[j].output).ok
                            THEN /\ app'.posting_status.status = "Success"
                                 /\ app'.post_editor_content = <<>>
                            ELSE /\ app'.posting_status.status = "Error"
                                 /\ app'.posting_status =
                                        PostingError("Api", Unwrap(task[j].output).entries)
                                 /\ app'.post_editor_content = app.post_editor_content]_vars
    /\ [](InFlight = {} => app.posting_status.status # "Posting")
    /\ []<>(InFlight = {})

\* A PostResult with two joined errors was handled and the text was kept.
PostLeadsToResultWitness ==
    /\ app.posting_status.status = "Error"
    /\ Len(app.posting_status.msg.joined) = 2
    /\ app.post_editor_content = <<97>>
    /\ \E j \in DOMAIN task : task[j] = TaskDropped

\* The block of task j was given no selected platform.
NoneSelected(j) == \A p \in Platforms : ~post[j].post_to[p]

\* C32: a publish with no platform selected calls no adapter and sends
\* nothing, its output is Ok as soon as it is polled, and its PostResult sets
\* posting_status to Success and clears the editor.
NothingSelectedSucceeds ==
    /\ [](\A j \in InFlight :
            NoneSelected(j)
                => /\ io_log[j] = <<>>
                   /\ task[j] # TaskNew => task[j].output = Some(TaskOutput(<<>>)))
    /\ [][\A j \in DOMAIN task :
              (NoneSelected(j) /\ task[j] # TaskDropped /\ task'[j] = TaskDropped)
                  => /\ app'.posting_status = PostingStatus("Success", "none")
                     /\ app'.post_editor_content = <<>>]_vars

\* A publish with no platform selected has returned Ok with nothing sent.
NothingSelectedSucceedsWitness ==
    \E j \in InFlight :
        /\ NoneSelected(j)
        /\ IsSome(task[j].output)
        /\ Unwrap(task[j].output).ok
        /\ io_log[j] = <<>>
        /\ app.posting_status.status = "Posting"

----------------------------------------------------------------------------
(* SpecGuard: the compose view with the texts around the guard of PostSubmit: *)
(* nothing, white space only, a short text, MAX_POST_LENGTH scalar values of  *)
(* four bytes each, and MAX_POST_LENGTH + 1 characters.                       *)

GuardTexts ==
    {<<>>, <<32, 10, 12288>>, <<97>>, [i \in 1..MAX_POST_LENGTH |-> 128640],
     [i \in 1..(MAX_POST_LENGTH + 1) |-> 97]}

GuardNext ==
    \/ EditorAction(GuardTexts)
    \/ ImageSelected
    \/ PostSubmit
    \/ TaskStart
    \/ TaskResponse
    \/ PostResult

SpecGuard == ComposeInit /\ [][GuardNext /\ UNCHANGED memory]_vars

\* text.trim().is_empty() || text.chars().count() > 500, as the claim has it
Refused(text) == TrimIsEmpty(text) \/ Len(text) > 500

\* C31: while the editor holds a text that is empty, white space only or
\* longer than 500 scalar values, no step creates a publish task, starts a log
\* of calls or sets posting_status to Posting, with or without an attached
\* image; and while it holds any other text, one of exactly 500 scalar values
\* included, PostSubmit creates a task from it.
PostSubmitGuard ==
    /\ [][Refused(app.post_editor_content)
              => /\ Len(post') = Len(post)
                 /\ Len(task') = Len(task)
                 /\ Len(io_log') = Len(io_log)
                 /\ app'.posting_status.status = "Posting"
                       => app.posting_status.status = "Posting"]_vars
    /\ []((~Refused(app.post_editor_content) /\ Len(post) < MaxPosts)
              => ENABLED (/\ PostSubmit
                          /\ UNCHANGED memory
                          /\ Len(task') = Len(task) + 1
                          /\ post'[Len(post')].text = app.post_editor_content))

\* A text of exactly 500 scalar values was submitted, and the editor now
\* holds white space only.
PostSubmitGuardWitness ==
    /\ \E j \in DOMAIN post : Len(post[j].text) = 500
    /\ app.post_editor_content # <<>>
    /\ TrimIsEmpty(app.post_editor_content)

----------------------------------------------------------------------------
(* SpecStore: encrypt_credentials as a whole.                                 *)

----------------------------------------------------------------------------
(* Spec: SaveSettings when the credentials cannot be encrypted.               *)

\* Whether encrypt_credentials fails on the values of the settings form (the
\* nonces drawn have no part in it).
EncryptFails(a) ==
    \E draw \in AppDraws :
        ~encrypt_credentials(TempConfig(a), crypto_manager, [p \in Platforms |-> draw]).res.ok

\* C34: a SaveSettings whose encrypt_credentials fails writes nothing (the
\* entry stays as it was and no change is reported by the watcher), leaves the
\* four post toggles as they were and sets posting_status to
\* Error("Failed to save settings"); an entry is written only by a
\* SaveSettings whose encrypt_credentials returned Ok.
SaveFailsClosed ==
    [][saves' # saves =>
        /\ EncryptFails(app)
              => /\ disk' = disk
                 /\ updates' = updates
                 /\ app'.post_to = app.post_to
                 /\ app'.posting_status = PostingStatus("Error", "Failed to save settings")
        /\ (disk' # disk \/ updates' # updates) => ~EncryptFails(app)]_vars

\* SaveSettings could not encrypt, and a toggle differs from the enabled flag
\* of the form that a completed save would have copied into it.
SaveFailsClosedWitness ==
    /\ saves = 1
    /\ EncryptFails(app)
    /\ app.posting_status = PostingStatus("Error", "Failed to save settings")
    /\ app.post_to # EnabledFlags(TempConfig(app))
    /\ \E p \in Platforms : IsSome(Stored(disk, p))

----------------------------------------------------------------------------
(* SpecPublish: the image upload of the Bluesky and Mastodon adapters.        *)

\* The stage at which the adapter of p awaits the answer to its image upload.
UploadStage(p) == CASE p = "bluesky" -> "uploadBlob" [] p = "mastodon" -> "media"

\* The request that creates the post carries no image.
WithoutImage(p, body) == CASE p = "bluesky" -> ~body.embed [] p = "mastodon" -> ~body.media

\* The answers with a status that is not a success to the image upload of p.
UploadRefused(p) ==
    {i \in ResponsesTo(p) :
        io_log[i].target = UploadStage(p) /\ io_log[i].body.status = "fail"}

\* C35: after an image upload answered with a status that is not a success,
\* the Bluesky and the Mastodon adapter send the request that creates the
\* post, without embed or media id, and return Ok when that request is
\* answered with a success.
UploadFailureTolerated ==
    \A p \in {"bluesky", "mastodon"} :
        \A i \in UploadRefused(p) :
            /\ i < Len(io_log)
            /\ io_log[i + 1].kind = "net"
            /\ io_log[i + 1].platform = p
            /\ io_log[i + 1].target = PostCreation(p)
            /\ WithoutImage(p, io_log[i + 1].body)
            /\ (i + 2) \in ResponsesTo(p)
                  => IF io_log[i + 2].body.status \in SuccessStatus
                     THEN /\ io_log[i + 3].kind = "return"
                          /\ io_log[i + 3].platform = p
                          /\ io_log[i + 3].body.ok
                     ELSE ReturnsNext(i + 2, p, IF io_log[i + 2].body.status = "fail"
                                                THEN "Api" ELSE "Network")

\* Both uploads were refused and both adapters returned Ok.
UploadFailureToleratedWitness ==
    /\ UploadRefused("bluesky") # {}
    /\ UploadRefused("mastodon") # {}
    /\ Succeeded("bluesky")
    /\ Succeeded("mastodon")

\* The reads of the attached file by the Bluesky adapter.
BlueskyReads ==
    {i \in 1..Len(io_log) : io_log[i] = FsRead("bluesky", Unwrap(post.attached_image))}

\* C36 (as claimed): with an image of more than IMAGE_MAX_BYTES bytes
\* post_to_bluesky returns an Api error and requests neither uploadBlob nor
\* createRecord; with an image of IMAGE_MAX_BYTES bytes it requests uploadBlob
\* before createRecord.
ImageCapIsApi ==
    /\ post.attached_image = Some(ImageBig)
          => /\ ReturnedApi("bluesky")
             /\ BlueskyRequests("com.atproto.repo.uploadBlob") = {}
             /\ BlueskyRequests("com.atproto.repo.createRecord") = {}
    /\ post.attached_image = Some(ImageOk)
          => \A r \in BlueskyRequests("com.atproto.repo.createRecord") :
                \E u \in BlueskyRequests("com.atproto.repo.uploadBlob") : u < r

\* C36 as amended: with an image of more than IMAGE_MAX_BYTES bytes
\* post_to_bluesky requests neither uploadBlob nor createRecord, and returns
\* an Api error, right after reading the file, whenever it gets as far as
\* reading the image; with an image of IMAGE_MAX_BYTES bytes it then reads
\* the file and requests uploadBlob, and requests createRecord only after
\* uploadBlob was answered.
ImageCapEnforced ==
    /\ post.attached_image = Some(ImageBig)
          => /\ BlueskyRequests("com.atproto.repo.uploadBlob") = {}
             /\ BlueskyRequests("com.atproto.repo.createRecord") = {}
             /\ ReadsImage("bluesky")
                   => /\ ReturnedApi("bluesky")
                      /\ \E i \in BlueskyReads :
                            /\ ReturnsNext(i, "bluesky", "Api")
                            /\ io_log[i + 1].body.err.msg = "Image file size too large"
             /\ BlueskyReads # {} => ReadsImage("bluesky")
    /\ post.attached_image = Some(ImageOk)
          => /\ ReadsImage("bluesky")
                   => \E i \in BlueskyReads :
                         (i + 1) \in BlueskyRequests("com.atproto.repo.uploadBlob")
             /\ \A r \in BlueskyRequests("com.atproto.repo.createRecord") :
                   \E u \in BlueskyRequests("com.atproto.repo.uploadBlob") :
                       \E a \in ResponsesTo("bluesky") :
                           u < a /\ a < r /\ io_log[a].target = "uploadBlob"

\* The session was created and the image of IMAGE_MAX_BYTES + 1 bytes was
\* read and refused.
ImageCapEnforcedWitness ==
    /\ post.attached_image = Some(ImageBig)
    /\ ReadsImage("bluesky")
    /\ \E i \in BlueskyReads : ReturnsNext(i, "bluesky", "Api")

\* The requests of the adapter of p whose transport failed (reqwest::Error
\* from send()).
TransportFailed(p) == {i \in ResponsesTo(p) : io_log[i].body.status = "error"}

\* C37: in the Bluesky, Mastodon and Micro.Blog adapters a request whose
\* transport fails is followed at once by the return of a Network error, and
\* by no further request or file read of that adapter.
TransportFailureIsNetwork ==
    \A p \in ImagePlatforms :
        \A i \in TransportFailed(p) :
            /\ ReturnsNext(i, p, "Network")
            /\ \A j \in (i + 1)..Len(io_log) :
                  io_log[j].platform = p => io_log[j].kind = "return" /\ j = i + 1

\* The transport failed at the upload of Bluesky, at the media upload of
\* Mastodon and at the request of Micro.Blog, and the block returned the
\* three Network errors.
TransportFailureIsNetworkWitness ==
    /\ \E i \in TransportFailed("bluesky") : io_log[i].target = "uploadBlob"
    /\ \E i \in TransportFailed("mastodon") : io_log[i].target = "media"
    /\ TransportFailed("microblog") # {}
    /\ IsSome(task.output)
    /\ Len(Unwrap(task.output).entries) = 3

----------------------------------------------------------------------------
(* SpecRelays: the relay list of the settings form.  The entry loaded at      *)
(* startup holds the default relays, no relay or one relay; `edits` counts    *)
(* the messages handled, up to MaxMessages.                                   *)

MaxMessages == 4

RelayEntries ==
    {ConfigDefault,
     [ConfigDefault EXCEPT !.nostr.relays = <<>>],
     [ConfigDefault EXCEPT !.nostr.relays = <<WssPrefix \o <<97>>>>]}

\* What can be typed in the input of the relay list: nothing, the scheme
\* alone, a scheme in capitals, another scheme, a URL with a one-byte and one
\* with a two-byte letter, and the first default relay.
RelayInputs ==
    {<<>>, WssPrefix, <<87, 83, 83, 58, 47, 47, 97>>, <<119, 115, 58, 47, 47, 97, 98>>,
     WssPrefix \o <<97>>, WssPrefix \o <<233>>, DefaultRelays[1]}

RelaysInit ==
    /\ env = StoreEnv
    /\ disk \in RelayEntries
    /\ \E r \in {init(env, disk, TRUE)} :
          /\ crypto_manager = r.crypto_manager
          /\ config = r.config
          /\ app = r.app
    /\ updates = 0
    /\ edits = 0
    /\ saves = 0
    /\ memory = "unused"
    /\ last_result = StoreResult("init", Ok("unit"))
    /\ enc_calls = 0
    /\ secret = <<>>
    /\ encrypted = None
    /\ enc_origin = None
    /\ post = "unused"
    /\ task = "unused"
    /\ io_log = <<>>

\* A message of the relay list is handled and leaves the AppModel a.
RelayMessage(message, a) ==
    /\ edits < MaxMessages
    /\ edits' = edits + 1
    /\ app' = a
    /\ Handled(message)
    /\ UNCHANGED <<config, disk, updates, saves>>

\* url.starts_with("wss://") && url.len() > 6, len() being the length in bytes
validate_relay_url(url) ==
    /\ Len(url) >= Len(WssPrefix)
    /\ SubSeq(url, 1, Len(WssPrefix)) = WssPrefix
    /\ PrefixBytes(url, Len(url)) > 6

\* self.temp_nostr.relays.contains(&url)
Contains(relays, url) == \E i \in 1..Len(relays) : relays[i] = url

\* Vec::remove(index), index counted from 0 and within the vector
Remove(relays, index) == SubSeq(relays, 1, index) \o SubSeq(relays, index + 2, Len(relays))

\* Message::NewRelayChanged(relay)
NewRelayChanged ==
    \E relay \in RelayInputs :
        RelayMessage("NewRelayChanged", [app EXCEPT !.new_relay = relay])

\* AddRelay without the test for a relay that is in the list already.
AddRelayAllowingDuplicates ==
    RelayMessage("AddRelay",
        IF validate_relay_url(app.new_relay)
        THEN [app EXCEPT !.temp_nostr.relays = Append(@, app.new_relay), !.new_relay = <<>>]
        ELSE app)

\* Message::AddRelay
AddRelay ==
    RelayMessage("AddRelay",
        IF validate_relay_url(app.new_relay) /\ ~Contains(app.temp_nostr.relays, app.new_relay)
        THEN [app EXCEPT !.temp_nostr.relays = Append(@, app.new_relay), !.new_relay = <<>>]
        ELSE app)

\* Message::RemoveRelay(index)
RemoveRelayAt(index) ==
    RelayMessage("RemoveRelay",
        IF index < Len(app.temp_nostr.relays)
        THEN [app EXCEPT !.temp_nostr.relays = Remove(@, index)]
        ELSE app)

\* The indexes of the relays of the list and the two after them.
RelayIndexes == 0..(Len(app.temp_nostr.relays) + 1)

RemoveRelay == \E index \in RelayIndexes : RemoveRelayAt(index)

RelaysNext ==
    \/ NewRelayChanged
    \/ AddRelay
    \/ RemoveRelay

SpecRelays == RelaysInit /\ [][RelaysNext /\ UNCHANGED memory]_vars

NoDuplicates(relays) == \A i, j \in 1..Len(relays) : relays[i] = relays[j] => i = j

\* The URL begins with wss:// and has more than 6 characters.
WellFormedRelay(url) == Len(url) > 6 /\ \A i \in 1..6 : url[i] = WssPrefix[i]

\* C38: the relay list of the settings form, free of duplicates at startup,
\* stays free of duplicates under NewRelayChanged, AddRelay and RemoveRelay;
\* AddRelay appends the URL of the input and clears the input when the URL
\* begins with wss://, has more than 6 characters and is not in the list, and
\* changes nothing otherwise; RemoveRelay with an index that is not in the
\* list changes nothing.
RelayListSound ==
    /\ [](NoDuplicates(app.temp_nostr.relays))
    /\ [][AddRelay =>
            IF /\ WellFormedRelay(app.new_relay)
               /\ \A i \in 1..Len(app.temp_nostr.relays) :
                     app.temp_nostr.relays[i] # app.new_relay
            THEN app' = [app EXCEPT !.temp_nostr.relays = @ \o <<app.new_relay>>,
                                    !.new_relay = <<>>]
            ELSE app' = app]_vars
    /\ [][\A index \in RelayIndexes :
            (RemoveRelayAt(index) /\ index >= Len(app.temp_nostr.relays)) => app' = app]_vars

\* A URL with a two-byte letter was added to the default relays, typed again
\* and refused by AddRelay.
RelayListSoundWitness ==
    /\ edits = MaxMessages
    /\ Len(app.temp_nostr.relays) = Len(DefaultRelays) + 1
    /\ app.temp_nostr.relays[Len(app.temp_nostr.relays)] = WssPrefix \o <<233>>
    /\ app.new_relay = WssPrefix \o <<233>>

====
